---- MODULE Spec2Model ----
(***************************************************************************)
(* The command-safety classifier of qcmd (internal/safety): Normalize,     *)
(* the Danger / Caution / wrapper registries and Checker.Check, with the   *)
(* regular expressions of the registries written out as syntax trees and   *)
(* matched by a leftmost-first matcher; and the run of the qcmd binary     *)
(* around it (cmd/qcmd/main.go): output mode, sanitized LLM reply, safety  *)
(* check, output router, exit code, and the zsh function q that calls it.  *)
(***************************************************************************)
EXTENDS Integers, Sequences, FiniteSets, TLC

VARIABLES checker, input, pc, normalized, result, stack, ret, out

vars == <<checker, input, pc, normalized, result, stack, ret, out>>

\* One run of the qcmd binary: who started it (via), its flags, the loaded
\* configuration, the backend's reply, the clipboard of the machine (env);
\* where run stands (rpc) and its locals; what it has written and copied,
\* its exit code (<<>> while it runs); and the state of the calling q.
VARIABLES via, flags, cfg, resp, env, rpc, command, outputMode, checkResult,
          isDangerous, stdout, stderr, clipboard, exit, zsh

runVars == <<via, flags, cfg, resp, env, rpc, command, outputMode, checkResult,
             isDangerous, stdout, stderr, clipboard, exit, zsh>>

-----------------------------------------------------------------------------
(* Strings.  A command is a string; At(s, i) is its i-th character.        *)

At(s, i) == SubSeq(s, i, i)

Drop(s, n) == SubSeq(s, n + 1, Len(s))

Chars(s) == {At(s, i) : i \in 1..Len(s)}

HasPrefix(s, p) == Len(p) <= Len(s) /\ SubSeq(s, 1, Len(p)) = p

HasSuffix(s, p) == Len(p) <= Len(s) /\ SubSeq(s, Len(s) - Len(p) + 1, Len(s)) = p

Contains(s, sub) == \E i \in 1..(Len(s) - Len(sub) + 1) : SubSeq(s, i, i + Len(sub) - 1) = sub

Min(set) == CHOOSE x \in set : \A y \in set : x <= y

Max(set) == CHOOSE x \in set : \A y \in set : x >= y

\* F of the value v: v is computed once, whatever the number of times F
\* refers to it.
With(v, F(_)) == CHOOSE r \in {F(x) : x \in {v}} : TRUE

Lower == "abcdefghijklmnopqrstuvwxyz"

Upper == "ABCDEFGHIJKLMNOPQRSTUVWXYZ"

Digits == "0123456789"

\* The vertical tab, which strings.TrimSpace strips and the regexp class \s
\* does not match.
VT == ""

\* \s of Go's regexp syntax: [\t\n\f\r ].
RegexSpace == {" ", "\t", "\n", "\f", "\r"}

\* The white space of strings.TrimSpace (unicode.IsSpace), as far as a
\* command line can hold it.
UnicodeSpace == RegexSpace \cup {VT}

-----------------------------------------------------------------------------
(* Regular expressions: the syntax tree of a pattern.                      *)

Lit(s) == [t |-> "lit", s |-> s]

Cls(set) == [t |-> "cls", neg |-> FALSE, set |-> set]

NotCls(set) == [t |-> "cls", neg |-> TRUE, set |-> set]

Cat(rs) == [t |-> "cat", rs |-> rs]

Alt(rs) == [t |-> "alt", rs |-> rs]

Rep(r, min, greedy) == [t |-> "rep", r |-> r, min |-> min, greedy |-> greedy]

Star(r) == Rep(r, 0, TRUE)

Plus(r) == Rep(r, 1, TRUE)

LazyPlus(r) == Rep(r, 1, FALSE)

Opt(r) == Alt(<<r, Cat(<<>>)>>)

Cap(r) == [t |-> "cap", r |-> r]

Eot == [t |-> "eot"]

\* ^ : the beginning of the text
Bot == [t |-> "bot"]

\* \s, and . (any character but a newline)
S == Cls(RegexSpace)

Dot == NotCls({"\n"})

\* A character under (?i): the character and its other case.
FoldSet(c) ==
    {c} \cup {At(Upper, k) : k \in {j \in 1..Len(Lower) : At(Lower, j) = c}}
        \cup {At(Lower, k) : k \in {j \in 1..Len(Upper) : At(Upper, j) = c}}

\* A literal under (?i).
FoldLit(s) == Cat([k \in 1..Len(s) |-> Cls(FoldSet(At(s, k)))])

\* A repetition's round must consume a character: an empty round ends it.
Advance(from) == [t |-> "adv", from |-> from]

\* The end of group 1, opened at position start.
CapEnd(start) == [t |-> "capend", start |-> start]

\* The outcome of a match attempt: <<>> (no match), or <<e, cs, ce>>: the
\* match ends before position e and group 1 captured the positions cs..ce-1
\* (cs = 0: the group took no part).
NoMatch == <<>>

\* The outcome first if it is a match, the outcome second if not.
OrElse(first, second) == With(first, LAMBDA m : IF m # NoMatch THEN m ELSE second)

\* Of the pairs <<k, outcome>> of tried, the outcome of the highest k (of
\* the lowest k, if not greedy) that is a match; NoMatch if there is none.
Preferred(tried, greedy) ==
    LET ok == {p \in tried : p[2] # NoMatch}
    IN  IF ok = {} THEN NoMatch
        ELSE (CHOOSE p \in ok : \A q \in ok : IF greedy THEN p[1] >= q[1] ELSE p[1] <= q[1])[2]

(* Run(todo, s, i, cs, ce): the match Go's regexp reports for the sequence *)
(* todo of expressions from position i of s on (leftmost-first: an earlier *)
(* alternative before a later one, one more round of a greedy repetition   *)
(* before stopping, stopping before one more round of a lazy one), having  *)
(* captured cs..ce-1 so far.                                               *)
RECURSIVE Run(_, _, _, _, _)
RECURSIVE RunAlt(_, _, _, _, _, _)
RECURSIVE RunFrom(_, _, _, _, _)
Run(todo, s, i, cs, ce) ==
    With(<<todo, s, i, cs, ce>>, LAMBDA a : RunFrom(a[1], a[2], a[3], a[4], a[5]))

\* Run, on the values of its arguments.
RunFrom(todo, s, i, cs, ce) ==
    IF todo = <<>> THEN <<i, cs, ce>>
    ELSE LET re == Head(todo)
             rest == Tail(todo)
         IN  CASE re.t = "lit" ->
                    IF i + Len(re.s) - 1 <= Len(s) /\ SubSeq(s, i, i + Len(re.s) - 1) = re.s
                    THEN Run(rest, s, i + Len(re.s), cs, ce) ELSE NoMatch
               [] re.t = "cls" ->
                    IF i <= Len(s) /\ ((At(s, i) \in re.set) # re.neg)
                    THEN Run(rest, s, i + 1, cs, ce) ELSE NoMatch
               [] re.t = "eot" -> IF i = Len(s) + 1 THEN Run(rest, s, i, cs, ce) ELSE NoMatch
               [] re.t = "bot" -> IF i = 1 THEN Run(rest, s, i, cs, ce) ELSE NoMatch
               [] re.t = "adv" -> IF i > re.from THEN Run(rest, s, i, cs, ce) ELSE NoMatch
               [] re.t = "capend" -> Run(rest, s, i, re.start, i)
               [] re.t = "cap" -> Run(<<re.r, CapEnd(i)>> \o rest, s, i, cs, ce)
               [] re.t = "cat" -> Run(re.rs \o rest, s, i, cs, ce)
               [] re.t = "alt" -> RunAlt(re.rs, rest, s, i, cs, ce)
               [] re.t = "rep" ->
                    IF re.r.t = "cls"
                    THEN \* rounds of one character: the longest run n of the
                         \* class from i on, and the outcome of the rest
                         \* after each count k of rounds
                         LET n == Min({j \in i..(Len(s) + 1) :
                                          j = Len(s) + 1 \/ ((At(s, j) \in re.r.set) = re.r.neg)}) - i
                         IN  With({<<k, Run(rest, s, i + k, cs, ce)>> : k \in re.min..n},
                                  LAMBDA tried : Preferred(tried, re.greedy))
                    ELSE IF re.min > 0
                    THEN Run(<<re.r, Rep(re.r, re.min - 1, re.greedy)>> \o rest, s, i, cs, ce)
                    ELSE IF re.greedy
                    THEN OrElse(Run(<<re.r, Advance(i), re>> \o rest, s, i, cs, ce),
                                Run(rest, s, i, cs, ce))
                    ELSE OrElse(Run(rest, s, i, cs, ce),
                                Run(<<re.r, Advance(i), re>> \o rest, s, i, cs, ce))

RunAlt(alts, rest, s, i, cs, ce) ==
    IF alts = <<>> THEN NoMatch
    ELSE OrElse(Run(<<Head(alts)>> \o rest, s, i, cs, ce),
                RunAlt(Tail(alts), rest, s, i, cs, ce))

\* The leftmost match of re in s: <<start>> \o its outcome, or NoMatch.
Find(re, s) ==
    With({<<i, Run(<<re>>, s, i, 0, 0)>> : i \in 1..(Len(s) + 1)},
         LAMBDA tried :
             With({p \in tried : p[2] # NoMatch},
                  LAMBDA ok : IF ok = {} THEN NoMatch
                              ELSE With(CHOOSE p \in ok : \A q \in ok : p[1] <= q[1],
                                        LAMBDA p : <<p[1]>> \o p[2])))

\* Regexp.MatchString: re matches somewhere in s.
MatchString(re, s) == \E i \in 1..(Len(s) + 1) : Run(<<re>>, s, i, 0, 0) # NoMatch

\* Regexp.FindStringSubmatch: <<>> (nil) without a match, else the text of
\* the leftmost match and of its group 1.
FindStringSubmatch(re, s) ==
    With(Find(re, s),
         LAMBDA m : IF m = NoMatch THEN <<>>
                    ELSE <<SubSeq(s, m[1], m[2] - 1),
                           IF m[3] = 0 THEN "" ELSE SubSeq(s, m[3], m[4] - 1)>>)

-----------------------------------------------------------------------------
(* Normalize (checker.go).                                                 *)

\* The concatenation of the strings pieces[lo], ..., pieces[hi].
RECURSIVE Join(_, _, _)
Join(pieces, lo, hi) ==
    IF lo > hi THEN ""
    ELSE IF lo = hi THEN pieces[lo]
    ELSE Join(pieces, lo, (lo + hi) \div 2) \o Join(pieces, (lo + hi) \div 2 + 1, hi)

\* strings.TrimSpace: s without its leading and trailing white space.
TrimSpace(s) ==
    LET kept == {i \in 1..Len(s) : At(s, i) \notin UnicodeSpace}
    IN  IF kept = {} THEN "" ELSE SubSeq(s, Min(kept), Max(kept))

\* A faulty variant of CollapseSpace: every character of \s becomes a space
\* of its own.
CollapseSpaceEach(s) ==
    Join([i \in 1..Len(s) |-> IF At(s, i) \notin RegexSpace THEN At(s, i) ELSE " "],
         1, Len(s))

\* spaceRegex.ReplaceAllString(cmd, " ") for spaceRegex = \s+ : every
\* maximal run of \s becomes one space.
CollapseSpace(s) ==
    Join([i \in 1..Len(s) |->
             IF At(s, i) \notin RegexSpace THEN At(s, i)
             ELSE IF i > 1 /\ At(s, i - 1) \in RegexSpace THEN "" ELSE " "],
         1, Len(s))

\* The position at which the run of slashes holding position i begins.
SlashRunStart(s, i) == Max({j \in 1..i : j = 1 \/ At(s, j - 1) # "/"})

\* strings.ReplaceAll(cmd, "//", "/"): one pass, left to right, over the
\* non-overlapping occurrences: of a run of slashes, the 1st and 2nd become
\* one slash, the 3rd and 4th one, ..., and an odd last one stays.
ReplaceAllSlash(s) ==
    Join([i \in 1..Len(s) |->
             IF At(s, i) # "/" THEN At(s, i)
             ELSE IF (i - SlashRunStart(s, i)) % 2 = 0 THEN "/" ELSE ""],
         1, Len(s))

\* A faulty variant of CollapseSlashes: one pass of ReplaceAll, no loop.
CollapseSlashesOnce(s) == ReplaceAllSlash(s)

\* for strings.Contains(cmd, "//") { cmd = strings.ReplaceAll(cmd, "//", "/") }
RECURSIVE CollapseSlashes(_)
CollapseSlashes(s) ==
    IF Contains(s, "//") THEN With(ReplaceAllSlash(s), LAMBDA cmd : CollapseSlashes(cmd)) ELSE s

\* cmd = strings.TrimSpace(cmd); cmd = spaceRegex.ReplaceAllString(cmd, " ");
\* the loop over "//"
Normalize(cmd) ==
    With(TrimSpace(cmd),
         LAMBDA trimmed : With(CollapseSpace(trimmed), LAMBDA spaced : CollapseSlashes(spaced)))

-----------------------------------------------------------------------------
(* The registries (patterns.go).  A pattern holds the source text of its   *)
(* regular expression; Compile gives the syntax tree regexp.MustCompile    *)
(* builds from it.                                                         *)

Safe == 0

Caution == 1

Danger == 2

LowerSet == Chars(Lower)

DigitSet == Chars(Digits)

\* A faulty variant of RxRmRootHome, without the closing (\s|$): the target
\* may go on below the root.
RxRmRootHomeOpenEnd ==
    Cat(<<FoldLit("rm"), Plus(S),
          Star(Cat(<<Lit("-"), Plus(Cls(FoldSet("r") \cup FoldSet("f"))), Plus(S)>>)),
          Alt(<<Lit("/"), Lit("~"), FoldLit("$HOME")>>)>>)

\* (?i)rm\s+(-[rf]+\s+)*(/|~|\$HOME)(\s|$)
RxRmRootHome ==
    Cat(<<FoldLit("rm"), Plus(S),
          Star(Cat(<<Lit("-"), Plus(Cls(FoldSet("r") \cup FoldSet("f"))), Plus(S)>>)),
          Alt(<<Lit("/"), Lit("~"), FoldLit("$HOME")>>),
          Alt(<<S, Eot>>)>>)

\* rm\s+(-[rRf]+\s+)*/\*(\s|$)
RxRmRootStar ==
    Cat(<<Lit("rm"), Plus(S),
          Star(Cat(<<Lit("-"), Plus(Cls({"r", "R", "f"})), Plus(S)>>)),
          Lit("/*"), Alt(<<S, Eot>>)>>)

\* rm\s+-[rRf]*[rRf][rRf]*\s+\*(\s|$)
RxRmStar ==
    Cat(<<Lit("rm"), Plus(S), Lit("-"),
          Star(Cls({"r", "R", "f"})), Cls({"r", "R", "f"}), Star(Cls({"r", "R", "f"})),
          Plus(S), Lit("*"), Alt(<<S, Eot>>)>>)

\* dd\s+.*of=/dev/[sh]d[a-z]+
RxDd ==
    Cat(<<Lit("dd"), Plus(S), Star(Dot), Lit("of=/dev/"), Cls({"s", "h"}), Lit("d"),
          Plus(Cls(LowerSet))>>)

\* mkfs\.[a-z0-9]+\s+/dev/
RxMkfs == Cat(<<Lit("mkfs."), Plus(Cls(LowerSet \cup DigitSet)), Plus(S), Lit("/dev/")>>)

\* >\s*/dev/[sh]d[a-z]
RxRedirectDisk == Cat(<<Lit(">"), Star(S), Lit("/dev/"), Cls({"s", "h"}), Lit("d"), Cls(LowerSet)>>)

\* :\s*\(\s*\)\s*\{[^}]*:\s*\|\s*:
RxForkBomb ==
    Cat(<<Lit(":"), Star(S), Lit("("), Star(S), Lit(")"), Star(S), Lit("{"),
          Star(NotCls({"}"})), Lit(":"), Star(S), Lit("|"), Star(S), Lit(":")>>)

\* chmod\s+(-[rR]+\s+)*(000|777)\s+/(\s|$)
RxChmodRoot ==
    Cat(<<Lit("chmod"), Plus(S),
          Star(Cat(<<Lit("-"), Plus(Cls({"r", "R"})), Plus(S)>>)),
          Alt(<<Lit("000"), Lit("777")>>), Plus(S), Lit("/"), Alt(<<S, Eot>>)>>)

\* chown\s+(-[rR]+\s+)*.+\s+/(\s|$)
RxChownRoot ==
    Cat(<<Lit("chown"), Plus(S),
          Star(Cat(<<Lit("-"), Plus(Cls({"r", "R"})), Plus(S)>>)),
          Plus(Dot), Plus(S), Lit("/"), Alt(<<S, Eot>>)>>)

\* mv\s+/\s+
RxMvRoot == Cat(<<Lit("mv"), Plus(S), Lit("/"), Plus(S)>>)

\* cat\s+/dev/u?random\s*>\s*/dev/sd
RxCatRandom ==
    Cat(<<Lit("cat"), Plus(S), Lit("/dev/"), Opt(Lit("u")), Lit("random"), Star(S), Lit(">"),
          Star(S), Lit("/dev/sd")>>)

\* >\s*/etc/(passwd|shadow)
RxAuthFiles == Cat(<<Lit(">"), Star(S), Lit("/etc/"), Alt(<<Lit("passwd"), Lit("shadow")>>)>>)

\* sudo\s+
RxSudo == Cat(<<Lit("sudo"), Plus(S)>>)

\* curl\s+.*\|\s*(ba)?sh
RxCurlPipe ==
    Cat(<<Lit("curl"), Plus(S), Star(Dot), Lit("|"), Star(S), Opt(Lit("ba")), Lit("sh")>>)

\* wget\s+.*\|\s*(ba)?sh
RxWgetPipe ==
    Cat(<<Lit("wget"), Plus(S), Star(Dot), Lit("|"), Star(S), Opt(Lit("ba")), Lit("sh")>>)

\* eval\s+
RxEval == Cat(<<Lit("eval"), Plus(S)>>)

\* A faulty variant of RxRmFlags, rm\s+-[rR]+\s+ : the flag class lacks f.
RxRmFlagsNoForce == Cat(<<Lit("rm"), Plus(S), Lit("-"), Plus(Cls({"r", "R"})), Plus(S)>>)

\* rm\s+-[rRf]+\s+
RxRmFlags == Cat(<<Lit("rm"), Plus(S), Lit("-"), Plus(Cls({"r", "R", "f"})), Plus(S)>>)

\* chmod\s+-[rR]+\s+
RxChmodRec == Cat(<<Lit("chmod"), Plus(S), Lit("-"), Plus(Cls({"r", "R"})), Plus(S)>>)

\* chown\s+-[rR]+\s+
RxChownRec == Cat(<<Lit("chown"), Plus(S), Lit("-"), Plus(Cls({"r", "R"})), Plus(S)>>)

\* pkill\s+
RxPkill == Cat(<<Lit("pkill"), Plus(S)>>)

\* killall\s+
RxKillall == Cat(<<Lit("killall"), Plus(S)>>)

Quote == Cls({"\"", "'"})

\* sudo\s+(.+)
RxWrapSudo == Cat(<<Lit("sudo"), Plus(S), Cap(Plus(Dot))>>)

\* sh\s+-c\s+["'](.+)["']
RxWrapSh == Cat(<<Lit("sh"), Plus(S), Lit("-c"), Plus(S), Quote, Cap(Plus(Dot)), Quote>>)

\* bash\s+-c\s+["'](.+)["']
RxWrapBash == Cat(<<Lit("bash"), Plus(S), Lit("-c"), Plus(S), Quote, Cap(Plus(Dot)), Quote>>)

\* zsh\s+-c\s+["'](.+)["']
RxWrapZsh == Cat(<<Lit("zsh"), Plus(S), Lit("-c"), Plus(S), Quote, Cap(Plus(Dot)), Quote>>)

\* eval\s+["']?(.+?)["']?$
RxWrapEval ==
    Cat(<<Lit("eval"), Plus(S), Opt(Quote), Cap(LazyPlus(Dot)), Opt(Quote), Eot>>)

Pattern(regex, level, description, category) ==
    [Regex |-> regex, Level |-> level, Description |-> description, Category |-> category]

DangerPatterns ==
    << Pattern("(?i)rm\\s+(-[rf]+\\s+)*(/|~|\\$HOME)(\\s|$)", Danger,
               "Recursive delete on root or home directory", "filesystem"),
       Pattern("rm\\s+(-[rRf]+\\s+)*/\\*(\\s|$)", Danger,
               "Delete everything in root directory", "filesystem"),
       Pattern("rm\\s+-[rRf]*[rRf][rRf]*\\s+\\*(\\s|$)", Danger,
               "Delete all files in current directory with force/recursive flags", "filesystem"),
       Pattern("dd\\s+.*of=/dev/[sh]d[a-z]+", Danger,
               "Direct disk write (dd to block device)", "filesystem"),
       Pattern("mkfs\\.[a-z0-9]+\\s+/dev/", Danger,
               "Filesystem format on a device", "filesystem"),
       Pattern(">\\s*/dev/[sh]d[a-z]", Danger,
               "Redirect output to disk device", "filesystem"),
       Pattern(":\\s*\\(\\s*\\)\\s*\\{[^}]*:\\s*\\|\\s*:", Danger,
               "Fork bomb pattern detected", "system"),
       Pattern("chmod\\s+(-[rR]+\\s+)*(000|777)\\s+/(\\s|$)", Danger,
               "Dangerous permission change on root filesystem", "filesystem"),
       Pattern("chown\\s+(-[rR]+\\s+)*.+\\s+/(\\s|$)", Danger,
               "Recursive ownership change on root filesystem", "filesystem"),
       Pattern("mv\\s+/\\s+", Danger, "Move root directory", "filesystem"),
       Pattern("cat\\s+/dev/u?random\\s*>\\s*/dev/sd", Danger,
               "Write random data to disk device", "filesystem"),
       Pattern(">\\s*/etc/(passwd|shadow)", Danger,
               "Overwrite authentication files", "system") >>

CautionPatterns ==
    << Pattern("sudo\\s+", Caution, "Command requires elevated privileges", "system"),
       Pattern("curl\\s+.*\\|\\s*(ba)?sh", Caution,
               "Piping remote script directly to shell", "network"),
       Pattern("wget\\s+.*\\|\\s*(ba)?sh", Caution,
               "Piping remote script directly to shell", "network"),
       Pattern("eval\\s+", Caution, "Dynamic command execution with eval", "system"),
       Pattern("rm\\s+-[rRf]+\\s+", Caution, "Recursive or forced file deletion", "filesystem"),
       Pattern("chmod\\s+-[rR]+\\s+", Caution, "Recursive permission change", "filesystem"),
       Pattern("chown\\s+-[rR]+\\s+", Caution, "Recursive ownership change", "filesystem"),
       Pattern("pkill\\s+", Caution, "Kill processes by pattern", "system"),
       Pattern("killall\\s+", Caution, "Kill all processes by name", "system") >>

\* A faulty variant of ShellWrappers: the eval wrapper is missing.
ShellWrappersNoEval ==
    << "sudo\\s+(.+)",
       "sh\\s+-c\\s+[\"'](.+)[\"']",
       "bash\\s+-c\\s+[\"'](.+)[\"']",
       "zsh\\s+-c\\s+[\"'](.+)[\"']" >>

ShellWrappers ==
    << "sudo\\s+(.+)",
       "sh\\s+-c\\s+[\"'](.+)[\"']",
       "bash\\s+-c\\s+[\"'](.+)[\"']",
       "zsh\\s+-c\\s+[\"'](.+)[\"']",
       "eval\\s+[\"']?(.+?)[\"']?$" >>

\* regexp.MustCompile, on the expressions of the registries.
Compile(src) ==
    CASE src = "(?i)rm\\s+(-[rf]+\\s+)*(/|~|\\$HOME)(\\s|$)" -> RxRmRootHome
      [] src = "rm\\s+(-[rRf]+\\s+)*/\\*(\\s|$)" -> RxRmRootStar
      [] src = "rm\\s+-[rRf]*[rRf][rRf]*\\s+\\*(\\s|$)" -> RxRmStar
      [] src = "dd\\s+.*of=/dev/[sh]d[a-z]+" -> RxDd
      [] src = "mkfs\\.[a-z0-9]+\\s+/dev/" -> RxMkfs
      [] src = ">\\s*/dev/[sh]d[a-z]" -> RxRedirectDisk
      [] src = ":\\s*\\(\\s*\\)\\s*\\{[^}]*:\\s*\\|\\s*:" -> RxForkBomb
      [] src = "chmod\\s+(-[rR]+\\s+)*(000|777)\\s+/(\\s|$)" -> RxChmodRoot
      [] src = "chown\\s+(-[rR]+\\s+)*.+\\s+/(\\s|$)" -> RxChownRoot
      [] src = "mv\\s+/\\s+" -> RxMvRoot
      [] src = "cat\\s+/dev/u?random\\s*>\\s*/dev/sd" -> RxCatRandom
      [] src = ">\\s*/etc/(passwd|shadow)" -> RxAuthFiles
      [] src = "sudo\\s+" -> RxSudo
      [] src = "curl\\s+.*\\|\\s*(ba)?sh" -> RxCurlPipe
      [] src = "wget\\s+.*\\|\\s*(ba)?sh" -> RxWgetPipe
      [] src = "eval\\s+" -> RxEval
      [] src = "rm\\s+-[rRf]+\\s+" -> RxRmFlags
      [] src = "chmod\\s+-[rR]+\\s+" -> RxChmodRec
      [] src = "chown\\s+-[rR]+\\s+" -> RxChownRec
      [] src = "pkill\\s+" -> RxPkill
      [] src = "killall\\s+" -> RxKillall
      [] src = "sudo\\s+(.+)" -> RxWrapSudo
      [] src = "sh\\s+-c\\s+[\"'](.+)[\"']" -> RxWrapSh
      [] src = "bash\\s+-c\\s+[\"'](.+)[\"']" -> RxWrapBash
      [] src = "zsh\\s+-c\\s+[\"'](.+)[\"']" -> RxWrapZsh
      [] src = "eval\\s+[\"']?(.+?)[\"']?$" -> RxWrapEval

\* NewChecker: the Checker over the default registries.
NewChecker ==
    [dangerPatterns |-> DangerPatterns,
     cautionPatterns |-> CautionPatterns,
     shellWrappers |-> ShellWrappers]

-----------------------------------------------------------------------------
(* Checker.Check and its helpers (checker.go), as functions of the Checker *)
(* c and the command.                                                      *)

CheckResult(level, pattern, description, category) ==
    [Level |-> level, Pattern |-> pattern, Description |-> description, Category |-> category]

\* CheckResult{Level: Safe}
SafeResult == CheckResult(Safe, "", "", "")

\* The first pattern of the registry that matches cmd, 0 if none does.
FirstMatch(patterns, cmd) ==
    With({k \in 1..Len(patterns) : MatchString(Compile(patterns[k].Regex), cmd)},
         LAMBDA hits : IF hits = {} THEN 0 ELSE Min(hits))

\* A faulty variant of ResultOf: the category is not copied.
ResultOfNoCategory(pattern) ==
    CheckResult(pattern.Level, pattern.Regex, pattern.Description, "")

ResultOf(pattern) ==
    CheckResult(pattern.Level, pattern.Regex, pattern.Description, pattern.Category)

\* A faulty variant of checkPatterns: a pattern matches only at the
\* beginning of the command.
checkPatternsAnchored(c, cmd) ==
    LET hits == {k \in 1..Len(c.dangerPatterns) :
                    Run(<<Compile(c.dangerPatterns[k].Regex)>>, cmd, 1, 0, 0) # NoMatch}
    IN  IF hits = {} THEN SafeResult ELSE ResultOf(c.dangerPatterns[Min(hits)])

\* A faulty variant of checkPatterns: without a match, the loop's last
\* pattern is returned.
checkPatternsFallThrough(c, cmd) ==
    LET k == FirstMatch(c.dangerPatterns, cmd)
    IN  ResultOf(c.dangerPatterns[IF k = 0 THEN Len(c.dangerPatterns) ELSE k])

checkPatterns(c, cmd) ==
    LET k == FirstMatch(c.dangerPatterns, cmd)
    IN  IF k = 0 THEN SafeResult ELSE ResultOf(c.dangerPatterns[k])

\* A faulty variant of checkCautionPatterns: the loop is over the Danger
\* patterns.
checkCautionPatternsOverDanger(c, cmd) ==
    LET k == FirstMatch(c.dangerPatterns, cmd)
    IN  IF k = 0 THEN SafeResult ELSE ResultOf(c.dangerPatterns[k])

\* A faulty variant of checkCautionPatterns, which goes through the whole
\* registry and keeps the last pattern that matches.
checkCautionPatternsLastMatch(c, cmd) ==
    LET hits == {k \in 1..Len(c.cautionPatterns) :
                    MatchString(Compile(c.cautionPatterns[k].Regex), cmd)}
    IN  IF hits = {} THEN SafeResult ELSE ResultOf(c.cautionPatterns[Max(hits)])

checkCautionPatterns(c, cmd) ==
    LET k == FirstMatch(c.cautionPatterns, cmd)
    IN  IF k = 0 THEN SafeResult ELSE ResultOf(c.cautionPatterns[k])

maxDepth == 5

\* A faulty variant of AtDepthLimit, one level early.
AtDepthLimitEarly(depth) == depth >= maxDepth - 1

\* A faulty variant of AtDepthLimit: depth > maxDepth.
AtDepthLimitOffByOne(depth) == depth > maxDepth

\* depth >= maxDepth
AtDepthLimit(depth) == depth >= maxDepth

ViaWrapper(r) == [r EXCEPT !.Pattern = r.Pattern \o " (via wrapper)"]

\* innerCmd of one round of the loop over the wrappers: the trimmed group 1
\* of the wrapper's match, "" when the wrapper does not match.
InnerCmd(wrapper, cmd) ==
    With(FindStringSubmatch(Compile(wrapper), cmd),
         LAMBDA matches : IF Len(matches) >= 2 THEN TrimSpace(matches[2]) ELSE "")

\* A faulty variant of Higher, which takes the first result whatever the
\* levels.
HigherTakesFirst(a, b) == a

Higher(a, b) == IF a.Level > b.Level THEN a ELSE b

RECURSIVE checkNestedCommands(_, _, _)
RECURSIVE NestedLoop(_, _, _, _, _)
checkNestedCommands(c, cmd, depth) ==
    IF AtDepthLimit(depth) THEN SafeResult ELSE NestedLoop(c, cmd, depth, 1, SafeResult)

\* The loop over c.shellWrappers from wrapper w on, with highestResult so far.
NestedLoop(c, cmd, depth, w, highest) ==
    IF w > Len(c.shellWrappers) THEN highest
    ELSE LET innerCmd == InnerCmd(c.shellWrappers[w], cmd)
             normalizedInner == Normalize(innerCmd)
             innerResult == checkPatterns(c, normalizedInner)
             nestedResult == checkNestedCommands(c, normalizedInner, depth + 1)
         IN  IF innerCmd = "" THEN NestedLoop(c, cmd, depth, w + 1, highest)
             ELSE IF innerResult.Level = Danger THEN ViaWrapper(innerResult)
             ELSE NestedLoop(c, cmd, depth, w + 1,
                             Higher(innerResult, Higher(nestedResult, highest)))

Check(c, cmd) ==
    LET norm == Normalize(cmd)
        direct == checkPatterns(c, norm)
        nestedResult == checkNestedCommands(c, norm, 0)
    IN  IF direct.Level = Danger THEN direct
        ELSE IF nestedResult.Level > direct.Level THEN nestedResult
        ELSE IF direct.Level = Safe THEN checkCautionPatterns(c, norm)
        ELSE direct

-----------------------------------------------------------------------------
(* Sanitize (internal/sanitize): the LLM's reply, stripped of markdown.    *)

UpperSet == Chars(Upper)

\* The backtick (a string cannot hold one on its own) and the fence of a
\* markdown code block.
Backtick == SubSeq("`'", 1, 1)

Fence == Backtick \o Backtick \o Backtick

\* (?s). : any character
AnyChar == NotCls({})

\* (?s)^\s*```[a-zA-Z0-9_-]*\n?(.*?)\n?```\s*$
codeFenceRegex ==
    Cat(<<Bot, Star(S), Lit(Fence),
          Star(Cls(LowerSet \cup UpperSet \cup DigitSet \cup {"_", "-"})),
          Opt(Lit("\n")), Cap(Rep(AnyChar, 0, FALSE)), Opt(Lit("\n")),
          Lit(Fence), Star(S), Eot>>)

\* ^`([^`]+)`$
inlineBacktickRegex ==
    Cat(<<Bot, Lit(Backtick), Cap(Plus(NotCls({Backtick}))), Lit(Backtick), Eot>>)

\* ^\$\s+
dollarPrefixRegex == Cat(<<Bot, Lit("$"), Plus(S)>>)

\* ^echo\s+["']QCMD_ERROR:\s*(.+?)["']$
errorSentinelRegex ==
    Cat(<<Bot, Lit("echo"), Plus(S), Cls({"\"", "'"}), Lit("QCMD_ERROR:"), Star(S),
          Cap(LazyPlus(Dot)), Cls({"\"", "'"}), Eot>>)

\* strings.Split(s, "\n"): the lines of s, one more than its newlines.
Split(s) ==
    LET nl == {i \in 1..Len(s) : At(s, i) = "\n"}
        \* where line k begins, and the newline (or the end) that closes it
        start(k) == IF k = 1 THEN 1
                    ELSE 1 + CHOOSE i \in nl : Cardinality({j \in nl : j <= i}) = k - 1
        stop(k) == IF k = Cardinality(nl) + 1 THEN Len(s) + 1
                   ELSE CHOOSE i \in nl : Cardinality({j \in nl : j <= i}) = k
    IN  [k \in 1..(Cardinality(nl) + 1) |-> SubSeq(s, start(k), stop(k) - 1)]

\* strings.Join(lines, "\n")
JoinLines(lines) ==
    Join([k \in 1..(2 * Len(lines) - 1) |->
             IF k % 2 = 1 THEN lines[(k + 1) \div 2] ELSE "\n"],
         1, 2 * Len(lines) - 1)

\* strings.TrimLeft(s, cutset) and strings.TrimRight(s, cutset)
TrimLeft(s, cutset) ==
    LET kept == {i \in 1..Len(s) : At(s, i) \notin cutset}
    IN  IF kept = {} THEN "" ELSE SubSeq(s, Min(kept), Len(s))

TrimRight(s, cutset) ==
    LET kept == {i \in 1..Len(s) : At(s, i) \notin cutset}
    IN  IF kept = {} THEN "" ELSE SubSeq(s, 1, Max(kept))

\* The first line without its leading, the last line without its trailing
\* blanks and tabs.
trimLeadingTrailingWhitespace(s) ==
    IF s = "" THEN s
    ELSE LET lines == Split(s)
             n == Len(lines)
         IN  JoinLines([k \in 1..n |->
                 LET left == IF k = 1 THEN TrimLeft(lines[k], {" ", "\t"}) ELSE lines[k]
                 IN  IF k = n THEN TrimRight(left, {" ", "\t"}) ELSE left])

\* dollarPrefixRegex.ReplaceAllString(line, ""): the pattern is anchored, so
\* its one match, if any, is a prefix.
StripDollarPrefix(line) ==
    With(Find(dollarPrefixRegex, line),
         LAMBDA m : IF m = NoMatch THEN line ELSE Drop(line, m[2] - 1))

Sanitize(raw) ==
    LET fence == FindStringSubmatch(codeFenceRegex, raw)
        unfenced == IF fence # <<>> THEN fence[2] ELSE raw
        inline == FindStringSubmatch(inlineBacktickRegex, TrimSpace(unfenced))
        unquoted == IF inline # <<>> THEN inline[2] ELSE unfenced
        lines == Split(unquoted)
        nonEmpty == {i \in 1..Len(lines) : TrimSpace(lines[i]) # ""}
    IN  IF nonEmpty = {} THEN ""
        ELSE LET kept == SubSeq(lines, Min(nonEmpty), Max(nonEmpty))
                 first == StripDollarPrefix(kept[1])
             IN  trimLeadingTrailingWhitespace(JoinLines(<<first>> \o Tail(kept)))

\* CheckErrorSentinel: <<isError, errMsg>>
CheckErrorSentinel(cmd) ==
    With(FindStringSubmatch(errorSentinelRegex, TrimSpace(cmd)),
         LAMBDA m : IF m # <<>> THEN <<TRUE, TrimSpace(m[2])>> ELSE <<FALSE, "">>)

-----------------------------------------------------------------------------
(* The output router (internal/output).  What a call writes and copies is  *)
(* its effect: the text for stdout, the lines for stderr, the strings      *)
(* copied to the clipboard, and the error it returns (Nil: none).          *)

ModeZLE == 0

ModeClipboard == 1

ModePrint == 2

ModeAuto == 3

Nil == ""

ErrNoClipboard == "no clipboard tool available"

ErrInvalidMode == "invalid output mode"

ErrCopy == "exit status 1"

\* ParseMode: <<mode, err>>
ParseMode(s) ==
    CASE s = "zle" -> <<ModeZLE, Nil>>
      [] s = "clipboard" -> <<ModeClipboard, Nil>>
      [] s = "print" -> <<ModePrint, Nil>>
      [] s \in {"auto", ""} -> <<ModeAuto, Nil>>
      [] OTHER -> <<ModeAuto, ErrInvalidMode>>

Effect(out_, errLines, copied, err) ==
    [stdout |-> out_, stderr |-> errLines, clipboard |-> copied, err |-> err]

\* The effect first, then the effect second, whose error is the outcome.
Then(first, second) ==
    Effect(first.stdout \o second.stdout, first.stderr \o second.stderr,
           first.clipboard \o second.clipboard, second.err)

\* HasClipboard and CopyToClipboard on the machine e: the error of the copy.
HasClipboard(e) == e.hasClipboard

CopyToClipboard(e, text) ==
    IF ~e.hasClipboard THEN Effect("", <<>>, <<>>, ErrNoClipboard)
    ELSE IF e.copyFails THEN Effect("", <<>>, <<>>, ErrCopy)
    ELSE Effect("", <<>>, <<text>>, Nil)

\* A faulty variant of printDangerWarning, which writes nothing.
printDangerWarningSilent == Effect("", <<>>, <<>>, Nil)

printDangerWarning ==
    Effect("",
           <<"", "WARNING: This command has been flagged as potentially dangerous.",
             "Review carefully before executing.", "">>,
           <<>>, Nil)

outputPrint(cmd) == Effect(cmd \o "\n", <<>>, <<>>, Nil)

\* A faulty variant of Copied, which confirms the copy on stdout.
CopiedOnStdout == Effect("Command copied to clipboard.\n", <<>>, <<>>, Nil)

Copied == Effect("", <<"Command copied to clipboard.">>, <<>>, Nil)

outputClipboard(e, cmd) ==
    LET copy == CopyToClipboard(e, cmd)
    IN  IF copy.err # Nil THEN copy ELSE Then(copy, Copied)

\* A faulty variant of outputAuto, without the fallback to print.
outputAutoNoFallback(e, cmd) == outputClipboard(e, cmd)

outputAuto(e, cmd) ==
    IF ~HasClipboard(e) THEN outputPrint(cmd)
    ELSE LET copy == CopyToClipboard(e, cmd)
         IN  IF copy.err # Nil THEN outputPrint(cmd) ELSE Then(copy, Copied)

\* A faulty variant of Output, which treats ZLE mode as it treats print
\* mode: the warning for a dangerous command, and a newline after the
\* command.
OutputZLEAsPrint(e, cmd, mode, dangerous) ==
    Then(IF dangerous THEN printDangerWarning ELSE Effect("", <<>>, <<>>, Nil),
         CASE mode = ModeClipboard -> outputClipboard(e, cmd)
           [] mode = ModeAuto -> outputAuto(e, cmd)
           [] OTHER -> outputPrint(cmd))

Output(e, cmd, mode, dangerous) ==
    Then(IF dangerous /\ mode # ModeZLE THEN printDangerWarning
         ELSE Effect("", <<>>, <<>>, Nil),
         CASE mode = ModeZLE -> Effect(cmd, <<>>, <<>>, Nil)
           [] mode = ModeClipboard -> outputClipboard(e, cmd)
           [] mode = ModePrint -> outputPrint(cmd)
           [] mode = ModeAuto -> outputAuto(e, cmd)
           [] OTHER -> outputPrint(cmd))

-----------------------------------------------------------------------------
(* Config.Validate (internal/config), as far as run depends on it.         *)

validModes == {"auto", "clipboard", "print", "zle"}

\* The error of Validate: the backend, the timeout and the token limit are
\* taken to be valid.
Validate(c) ==
    IF c.OutputMode \notin validModes THEN "invalid output_mode" ELSE Nil

-----------------------------------------------------------------------------
(* Check, step by step.  Every call of Check runs on its own: input, pc,   *)
(* normalized, result, stack, ret and out are per call; the Checker is     *)
(* shared by the calls.  stack[self] holds the activations of              *)
(* checkNestedCommands, the innermost last.                                *)

Calls == DOMAIN pc

\* An activation of checkNestedCommands(cmd, depth): w is the index of the
\* wrapper the loop is at, highestResult and innerResult its locals; at is
\* "enter" before the depth test, "loop" in the loop, "wait" during the
\* recursive call.
Frame(cmd, depth) ==
    [cmd |-> cmd, depth |-> depth, at |-> "enter", w |-> 1,
     highestResult |-> SafeResult, innerResult |-> SafeResult]

Top(self) == stack[self][Len(stack[self])]

Pop(self) == SubSeq(stack[self], 1, Len(stack[self]) - 1)

SetTop(self, frame) == [stack[self] EXCEPT ![Len(stack[self])] = frame]

InFrame(self, at) == pc[self] = "nested" /\ stack[self] # <<>> /\ Top(self).at = at

\* normalized := Normalize(cmd)
CheckNormalize(self) ==
    /\ pc[self] = "start"
    /\ normalized' = [normalized EXCEPT ![self] = Normalize(input[self])]
    /\ pc' = [pc EXCEPT ![self] = "patterns"]
    /\ UNCHANGED <<checker, input, result, stack, ret, out>>
    /\ UNCHANGED runVars

\* A faulty variant of CheckDanger, which goes on to the nested commands
\* whatever the result.
CheckDangerGoesOn(self) ==
    /\ pc[self] = "patterns"
    /\ result' = [result EXCEPT ![self] = checkPatterns(checker, normalized[self])]
    /\ stack' = [stack EXCEPT ![self] = <<Frame(normalized[self], 0)>>]
    /\ pc' = [pc EXCEPT ![self] = "nested"]
    /\ UNCHANGED <<checker, input, normalized, ret, out>>
    /\ UNCHANGED runVars

\* result := c.checkPatterns(normalized); Danger returns at once, anything
\* else calls c.checkNestedCommands(normalized, 0)
CheckDanger(self) ==
    /\ pc[self] = "patterns"
    /\ \E r \in {checkPatterns(checker, normalized[self])} :
           /\ result' = [result EXCEPT ![self] = r]
           /\ IF r.Level = Danger
              THEN /\ out' = [out EXCEPT ![self] = r]
                   /\ pc' = [pc EXCEPT ![self] = "done"]
                   /\ UNCHANGED stack
              ELSE /\ stack' = [stack EXCEPT ![self] = <<Frame(normalized[self], 0)>>]
                   /\ pc' = [pc EXCEPT ![self] = "nested"]
                   /\ UNCHANGED out
    /\ UNCHANGED <<checker, input, normalized, ret>>
    /\ UNCHANGED runVars

\* if depth >= maxDepth { return CheckResult{Level: Safe} }
NestedDepthLimit(self) ==
    /\ InFrame(self, "enter")
    /\ AtDepthLimit(Top(self).depth)
    /\ ret' = [ret EXCEPT ![self] = SafeResult]
    /\ stack' = [stack EXCEPT ![self] = Pop(self)]
    /\ UNCHANGED <<checker, input, pc, normalized, result, out>>
    /\ UNCHANGED runVars

\* highestResult.Level = Safe, and the loop over c.shellWrappers begins
NestedBegin(self) ==
    /\ InFrame(self, "enter")
    /\ ~AtDepthLimit(Top(self).depth)
    /\ stack' = [stack EXCEPT ![self] =
                    SetTop(self, [Top(self) EXCEPT !.at = "loop", !.w = 1,
                                                   !.highestResult = SafeResult])]
    /\ UNCHANGED <<checker, input, pc, normalized, result, ret, out>>
    /\ UNCHANGED runVars

InLoop(self) == InFrame(self, "loop") /\ Top(self).w <= Len(checker.shellWrappers)

\* the wrapper does not match, or its inner command is empty: next wrapper
NestedSkip(self) ==
    /\ InLoop(self)
    /\ InnerCmd(checker.shellWrappers[Top(self).w], Top(self).cmd) = ""
    /\ stack' = [stack EXCEPT ![self] = SetTop(self, [Top(self) EXCEPT !.w = @ + 1])]
    /\ UNCHANGED <<checker, input, pc, normalized, result, ret, out>>
    /\ UNCHANGED runVars

\* A faulty variant of NestedInnerDanger: the mark is written through to the
\* description of the registry's pattern, too.
NestedInnerDangerWritesThrough(self) ==
    /\ InLoop(self)
    /\ \E innerCmd \in {InnerCmd(checker.shellWrappers[Top(self).w], Top(self).cmd)} :
         \E normalizedInner \in {Normalize(innerCmd)} :
           \E innerResult \in {checkPatterns(checker, normalizedInner)} :
             /\ innerCmd # ""
             /\ innerResult.Level = Danger
             /\ ret' = [ret EXCEPT ![self] = ViaWrapper(innerResult)]
             /\ checker' =
                    [checker EXCEPT
                        !.dangerPatterns[FirstMatch(checker.dangerPatterns, normalizedInner)]
                            .Description = @ \o " (via wrapper)"]
    /\ stack' = [stack EXCEPT ![self] = Pop(self)]
    /\ UNCHANGED <<input, pc, normalized, result, out>>
    /\ UNCHANGED runVars

\* the inner command matches a Danger pattern: return it, marked
NestedInnerDanger(self) ==
    /\ InLoop(self)
    /\ \E innerCmd \in {InnerCmd(checker.shellWrappers[Top(self).w], Top(self).cmd)} :
         \E normalizedInner \in {Normalize(innerCmd)} :
           \E innerResult \in {checkPatterns(checker, normalizedInner)} :
             /\ innerCmd # ""
             /\ innerResult.Level = Danger
             /\ ret' = [ret EXCEPT ![self] = ViaWrapper(innerResult)]
    /\ stack' = [stack EXCEPT ![self] = Pop(self)]
    /\ UNCHANGED <<checker, input, pc, normalized, result, out>>
    /\ UNCHANGED runVars

\* it does not: nestedResult := c.checkNestedCommands(normalizedInner, depth+1)
NestedRecurse(self) ==
    /\ InLoop(self)
    /\ \E innerCmd \in {InnerCmd(checker.shellWrappers[Top(self).w], Top(self).cmd)} :
         \E normalizedInner \in {Normalize(innerCmd)} :
           \E innerResult \in {checkPatterns(checker, normalizedInner)} :
             /\ innerCmd # ""
             /\ innerResult.Level # Danger
             /\ stack' = [stack EXCEPT ![self] =
                             Append(SetTop(self, [Top(self) EXCEPT !.at = "wait",
                                                                   !.innerResult = innerResult]),
                                    Frame(normalizedInner, Top(self).depth + 1))]
    /\ UNCHANGED <<checker, input, pc, normalized, result, ret, out>>
    /\ UNCHANGED runVars

\* A faulty variant of NestedResume: a Danger result that comes back from the
\* recursive call is marked once more on the way up.
NestedResumeMarksAgain(self) ==
    /\ InFrame(self, "wait")
    /\ stack' = [stack EXCEPT ![self] =
                    SetTop(self, [Top(self) EXCEPT
                        !.at = "loop",
                        !.w = @ + 1,
                        !.highestResult =
                            Higher(Top(self).innerResult,
                                   Higher(IF ret[self].Level = Danger
                                          THEN ViaWrapper(ret[self]) ELSE ret[self], @))])]
    /\ UNCHANGED <<checker, input, pc, normalized, result, ret, out>>
    /\ UNCHANGED runVars

\* the recursive call has returned: keep the highest of nestedResult,
\* innerResult and highestResult; next wrapper
NestedResume(self) ==
    /\ InFrame(self, "wait")
    /\ stack' = [stack EXCEPT ![self] =
                    SetTop(self, [Top(self) EXCEPT
                        !.at = "loop",
                        !.w = @ + 1,
                        !.highestResult =
                            Higher(Top(self).innerResult, Higher(ret[self], @))])]
    /\ UNCHANGED <<checker, input, pc, normalized, result, ret, out>>
    /\ UNCHANGED runVars

\* the loop is over: return highestResult
NestedLoopEnd(self) ==
    /\ InFrame(self, "loop")
    /\ Top(self).w > Len(checker.shellWrappers)
    /\ ret' = [ret EXCEPT ![self] = Top(self).highestResult]
    /\ stack' = [stack EXCEPT ![self] = Pop(self)]
    /\ UNCHANGED <<checker, input, pc, normalized, result, out>>
    /\ UNCHANGED runVars

\* if nestedResult.Level > result.Level { return nestedResult }
CheckCompare(self) ==
    /\ pc[self] = "nested"
    /\ stack[self] = <<>>
    /\ IF ret[self].Level > result[self].Level
       THEN /\ out' = [out EXCEPT ![self] = ret[self]]
            /\ pc' = [pc EXCEPT ![self] = "done"]
       ELSE /\ pc' = [pc EXCEPT ![self] = "caution"]
            /\ UNCHANGED out
    /\ UNCHANGED <<checker, input, normalized, result, stack, ret>>
    /\ UNCHANGED runVars

\* if result.Level == Safe { result = c.checkCautionPatterns(normalized) }
\* return result
CheckCaution(self) ==
    /\ pc[self] = "caution"
    /\ \E r \in {IF result[self].Level = Safe
                   THEN checkCautionPatterns(checker, normalized[self])
                   ELSE result[self]} :
           /\ result' = [result EXCEPT ![self] = r]
           /\ out' = [out EXCEPT ![self] = r]
    /\ pc' = [pc EXCEPT ![self] = "done"]
    /\ UNCHANGED <<checker, input, normalized, stack, ret>>
    /\ UNCHANGED runVars

Next ==
    \/ \E self \in Calls : CheckNormalize(self)
    \/ \E self \in Calls : CheckDanger(self)
    \/ \E self \in Calls : NestedDepthLimit(self)
    \/ \E self \in Calls : NestedBegin(self)
    \/ \E self \in Calls : NestedSkip(self)
    \/ \E self \in Calls : NestedInnerDanger(self)
    \/ \E self \in Calls : NestedRecurse(self)
    \/ \E self \in Calls : NestedResume(self)
    \/ \E self \in Calls : NestedLoopEnd(self)
    \/ \E self \in Calls : CheckCompare(self)
    \/ \E self \in Calls : CheckCaution(self)

\* No run of the binary: Check is called on its own, as by the package's
\* tests.
NotRunning ==
    /\ via = "none"
    /\ flags = [outputMode |-> "", noSafety |-> FALSE, showVer |-> FALSE]
    /\ cfg = [OutputMode |-> "auto", BlockDangerous |-> TRUE, ShowWarnings |-> TRUE]
    /\ resp = [Command |-> "", err |-> ""]
    /\ env = [hasClipboard |-> FALSE, copyFails |-> FALSE]
    /\ rpc = "none"
    /\ command = ""
    /\ outputMode = ModeAuto
    /\ checkResult = SafeResult
    /\ isDangerous = FALSE
    /\ stdout = ""
    /\ stderr = <<>>
    /\ clipboard = <<>>
    /\ exit = <<>>
    /\ zsh = [query |-> "", cmd |-> "", exit_code |-> <<>>, buffer |-> <<>>,
              shown |-> "", ret |-> <<>>]

\* The calls ids, each about to run Check on one of the commands cmds, on a
\* Checker fresh from NewChecker.
InitCalls(ids, cmds) ==
    /\ checker = NewChecker
    /\ input \in [ids -> cmds]
    /\ pc = [self \in ids |-> "start"]
    /\ normalized = [self \in ids |-> ""]
    /\ result = [self \in ids |-> SafeResult]
    /\ stack = [self \in ids |-> <<>>]
    /\ ret = [self \in ids |-> SafeResult]
    /\ out = [self \in ids |-> SafeResult]

-----------------------------------------------------------------------------
(* The commands Check is run on.                                           *)

\* s with every occurrence of the character from replaced by the string to.
Substitute(s, from, to) ==
    Join([i \in 1..Len(s) |-> IF At(s, i) = from THEN to ELSE At(s, i)], 1, Len(s))

RECURSIVE Repeat(_, _)
Repeat(s, n) == IF n = 0 THEN "" ELSE s \o Repeat(s, n - 1)

\* The strings of at most n characters of the alphabet.
RECURSIVE StringsUpTo(_, _)
StringsUpTo(alphabet, n) ==
    IF n = 0 THEN {""}
    ELSE LET shorter == StringsUpTo(alphabet, n - 1)
         IN  shorter \cup {s \o a : s \in shorter, a \in alphabet}

\* The canonical dangerous commands.
CanonicalDanger ==
    {"rm -rf /", "rm -rf ~", "rm -rf $HOME", "rm -rf /*", ":(){ :|:& };:",
     "dd if=/dev/zero of=/dev/sda", "mkfs.ext4 /dev/sda1", "chmod -R 777 /",
     "mv / /backup", "echo root > /etc/passwd"}

\* The r and f flags of rm, in either order and either case.
RmFlagForms == {"-rf", "-fr", "-Rf", "-rF", "-RF", "-fR", "-Fr", "-FR"}

RmDangerTargets == {"/", "~", "$HOME", "/*"}

\* The canonical rm commands with the flags reordered or upper-cased.
RmFlagVariants == {"rm " \o f \o " " \o target : f \in RmFlagForms, target \in RmDangerTargets}

\* c with extra white space: every space doubled or turned into a tab, or
\* spaces around the command.
SpaceVariants(c) == {Substitute(c, " ", "  "), Substitute(c, " ", "\t"), "  " \o c \o " "}

\* c with every slash doubled.
SlashVariant(c) == Substitute(c, "/", "//")

CanonicalDangerVariants ==
    LET base == CanonicalDanger \cup RmFlagVariants
    IN  base \cup UNION {SpaceVariants(c) : c \in base} \cup {SlashVariant(c) : c \in base}

\* The canonical safe commands.
CanonicalSafe ==
    {"ls -la", "rm file.txt", "rm -rf /tmp/cache", "rm -rf ./build", "find / -name foo",
     "cat /etc/hosts", "echo /"}

\* The borderline commands.
CanonicalCaution ==
    {"sudo apt update", "curl https://example.com | bash", "rm -rf node_modules",
     "chmod -R 755 ./bin", "pkill node", "killall firefox"}

\* The table of TestSafetyChecker and TestEdgeCases (checker_test.go), by
\* the level the tests expect.
TestSafe ==
    {"ls -la", "find . -name '*.go'", "rm file.txt", "grep -r 'TODO' .", "cat /etc/hosts",
     "echo /", "ls /", "find / -name foo", "touch newfile.txt", "mkdir -p /tmp/test",
     "cp -r /src /dst", "mv file1.txt file2.txt", "tar -xzf archive.tar.gz",
     "git add . && git commit -m 'test'", "docker run -it ubuntu bash",
     "npm install express", "rm somefile.txt", "cat rm", "ls rm-old-files/"}

TestCaution ==
    {"sudo apt update", "sudo systemctl restart nginx", "curl https://example.com | bash",
     "curl https://example.com | sh", "wget -O - https://example.com | bash",
     "eval 'echo hello'", "rm -rf node_modules", "rm -f somefile", "rm -rf /tmp/build",
     "rm -rf ./dist", "rm -rf /var/log/myapp", "rm -rf /home/user/tmp/",
     "chmod -R 755 ./bin", "chown -R user:group ./dir", "pkill node", "killall firefox",
     "sudo ls -la", "sudo apt-get install vim", "rm -rf /var/tmp/test", "echo 'rm -rf /'",
     "grep 'rm -rf /' logs.txt"}

TestDanger ==
    {"rm -rf /", "rm -fr /", "rm -rf ~", "rm -rf $HOME", "rm  -rf  /", "rm -rf /*",
     "dd if=/dev/zero of=/dev/sda", "dd if=/dev/urandom of=/dev/sdb bs=1M",
     "dd if=/dev/zero of=/dev/hda", "mkfs.ext4 /dev/sda1", "mkfs.xfs /dev/sdb",
     "mkfs.vfat /dev/sdc1", "echo foo > /dev/sda", "cat /dev/random > /dev/sda",
     "cat /dev/urandom > /dev/sdb", ":(){ :|:& };:", ": () { : | : & } ; :", "chmod 777 /",
     "chmod 000 /", "chmod -R 777 /", "chown root:root /", "chown -R user:user /",
     "mv / /backup", "echo root > /etc/passwd", "cat > /etc/shadow",
     "something > /etc/passwd", "rm   -rf   /", "rm -rf //", "rm -Rf /", "rm -rF /",
     "rm -rf *", "rm -f / x", "echo 'a'; rm -rf /", "echo \"b\" > /etc/shadow"}

\* The wrapper forms around a command c.
WrapperForms(c) ==
    {"sudo " \o c,
     "sh -c \"" \o c \o "\"", "sh -c '" \o c \o "'",
     "bash -c \"" \o c \o "\"", "bash -c '" \o c \o "'",
     "zsh -c \"" \o c \o "\"",
     "eval '" \o c \o "'", "eval " \o c}

\* cmd, normalized, matches a Danger pattern of the default registry.
MatchesDanger(cmd) == checkPatterns(NewChecker, Normalize(cmd)).Level = Danger

\* The commands that match a Danger pattern.
DangerCommands == {c \in CanonicalDanger \cup TestDanger : MatchesDanger(c)}

\* A dangerous command in one wrapper, and in two.
Wrapped == UNION {WrapperForms(c) : c \in DangerCommands}

NestedCore == {"rm -rf /", "rm -rf ~", "chmod 777 /", "rm -rf /*", "chown -R user:user /"}

WrappedTwice == UNION {WrapperForms(w) : w \in UNION {WrapperForms(c) : c \in NestedCore}}

\* rm commands with a single target that is a relative path, or an absolute
\* path with a component below the root; no component is a bare *.
MaxComponents == 2

PathComponents == {"a", "..", "*.o", "~"}

RECURSIVE RelativePaths(_)
RelativePaths(n) ==
    IF n = 1 THEN PathComponents
    ELSE LET shorter == RelativePaths(n - 1)
         IN  shorter \cup {p \o "/" \o c : p \in shorter, c \in PathComponents}

\* "~" alone is the home directory, not a path below the current directory.
RmBenignTargets ==
    LET rel == RelativePaths(MaxComponents) \ {"~"}
        abs == {"/" \o p : p \in RelativePaths(MaxComponents)}
    IN  rel \cup abs \cup {p \o "/" : p \in rel \cup abs}

RmBenignFlags == {"", "-rf ", "-r -f ", "-Rf "}

RmBenign ==
    {"rm file.txt", "rm -rf ./build", "rm -rf /var/log/myapp"}
        \cup {"rm " \o f \o target : f \in RmBenignFlags, target \in RmBenignTargets}

\* sudo in front of a command.
SudoCommands == {"sudo " \o c : c \in TestSafe \cup TestCaution \cup TestDanger \cup Wrapped}

\* Chains of n wrappers around a command.
MaxChain == 7

ChainEnds == {"ls", "rm -rf /", "rm -rf /tmp/x"}

Chains ==
    {Repeat(w, n) \o c : w \in {"sudo ", "eval "}, n \in 0..MaxChain, c \in ChainEnds}

\* sudo, any number of times, before a command that a Danger pattern
\* matches
SudoChains == {Repeat("sudo ", n) \o c : n \in 0..MaxChain, c \in DangerCommands}

\* shell wrappers one inside the other, dangerous at the innermost
RECURSIVE ShChain(_, _)
ShChain(n, c) == IF n = 0 THEN c ELSE "sh -c '" \o ShChain(n - 1, c) \o "'"

ShChains == {ShChain(n, c) : n \in 0..MaxChain, c \in ChainEnds}

\* Short strings of white space, slashes and a letter.
MaxLen == 4

Alphabet == {" ", "\t", "/", "a", VT}

ShortStrings == StringsUpTo(Alphabet, MaxLen)

Commands ==
    CanonicalDangerVariants \cup CanonicalSafe \cup CanonicalCaution
        \cup TestSafe \cup TestCaution \cup TestDanger
        \cup Wrapped \cup WrappedTwice \cup RmBenign \cup SudoCommands
        \cup Chains \cup SudoChains \cup ShChains \cup ShortStrings

\* One call of Check, on any of the commands.
Init == InitCalls({1}, Commands) /\ NotRunning

Spec == Init /\ [][Next]_vars

\* Spec, with the call running on: a started Check keeps taking steps.
FairSpec == Spec /\ WF_vars(Next)

\* Two concurrent calls of Check on one Checker.
ConcurrentCommands ==
    {"rm -rf /", "ls -la", "sudo bash -c 'rm -rf ~'", "eval 'sudo rm -f x'",
     "sudo sudo sudo sudo sudo ls"}

InitConcurrent == InitCalls({1, 2}, ConcurrentCommands) /\ NotRunning

SpecConcurrent == InitConcurrent /\ [][Next]_vars

-----------------------------------------------------------------------------
(* run (cmd/qcmd/main.go), step by step, and the zsh function q that calls *)
(* the binary.  The query, the backend and the model are taken to be       *)
(* valid: the run reaches the backend's reply.                             *)

exitSuccess == 0

exitUserError == 1

exitSystemError == 2

exitDangerBlocked == 3

version == "dev"

Exited == rpc = "exit"

\* run returns code, after writing the lines to stderr.
Return(code, lines) ==
    /\ rpc' = "exit"
    /\ exit' = <<code>>
    /\ stderr' = stderr \o lines

\* The lines of the two warnings of run.
DangerWarning(r) ==
    <<"", "WARNING: Dangerous command detected!", "  Category: " \o r.Category,
      "  Reason: " \o r.Description, "">>

CautionWarning(r) ==
    <<"", "Caution: Review this command before executing.", "  Category: " \o r.Category,
      "  Reason: " \o r.Description, "">>

\* q, up to the call of the binary: without a query it returns at once.
qStart ==
    /\ via = "q" /\ rpc = "none" /\ zsh.ret = <<>>
    /\ IF TrimSpace(zsh.query) = ""
       THEN zsh' = [zsh EXCEPT !.ret = <<0>>] /\ UNCHANGED rpc
       ELSE rpc' = "flags" /\ UNCHANGED zsh
    /\ UNCHANGED <<vars, via, flags, cfg, resp, env, command, outputMode, checkResult,
                   isDangerous, stdout, stderr, clipboard, exit>>

\* parseFlags, and --version
ParseFlags ==
    /\ rpc = "flags"
    /\ IF flags.showVer
       THEN /\ stdout' = stdout \o "qcmd version " \o version \o "\n"
            /\ Return(exitSuccess, <<>>)
       ELSE /\ rpc' = "config"
            /\ UNCHANGED <<stdout, stderr, exit>>
    /\ UNCHANGED <<vars, via, flags, cfg, resp, env, command, outputMode, checkResult,
                   isDangerous, clipboard, zsh>>

\* config.Load and cfg.Validate
LoadConfig ==
    /\ rpc = "config"
    /\ IF Validate(cfg) # Nil
       THEN Return(exitUserError, <<"qcmd: invalid config: " \o Validate(cfg)>>)
       ELSE rpc' = "mode" /\ UNCHANGED <<stderr, exit>>
    /\ UNCHANGED <<vars, via, flags, cfg, resp, env, command, outputMode, checkResult,
                   isDangerous, stdout, clipboard, zsh>>

\* "Parse output mode."
ParseOutputMode ==
    /\ rpc = "mode"
    /\ \E parsed \in {ParseMode(flags.outputMode)} :
         IF parsed[2] # Nil
         THEN IF flags.outputMode = ""
              THEN /\ outputMode' = ParseMode(cfg.OutputMode)[1]
                   /\ rpc' = "generate"
                   /\ UNCHANGED <<stderr, exit>>
              ELSE /\ Return(exitUserError, <<"qcmd: invalid output mode: " \o flags.outputMode>>)
                   /\ UNCHANGED outputMode
         ELSE /\ outputMode' = parsed[1]
              /\ rpc' = "generate"
              /\ UNCHANGED <<stderr, exit>>
    /\ UNCHANGED <<vars, via, flags, cfg, resp, env, command, checkResult, isDangerous,
                   stdout, clipboard, zsh>>

\* GenerateCommand, Sanitize and CheckErrorSentinel
Generate ==
    /\ rpc = "generate"
    /\ CASE resp.err \in {"timeout", "canceled", "api"} ->
              /\ Return(exitSystemError, <<"qcmd: " \o resp.err>>)
              /\ UNCHANGED command
         [] resp.err = "nokey" ->
              /\ Return(exitUserError, <<"qcmd: no API key configured for backend", "  Set API_KEY">>)
              /\ UNCHANGED command
         [] OTHER ->
              \E sanitized \in {Sanitize(resp.Command)} :
                  /\ command' = sanitized
                  /\ \E sentinel \in {CheckErrorSentinel(sanitized)} :
                       IF sentinel[1]
                       THEN Return(exitUserError,
                                   <<"qcmd: LLM could not generate command: " \o sentinel[2]>>)
                       ELSE rpc' = "safety" /\ UNCHANGED <<stderr, exit>>
    /\ UNCHANGED <<vars, via, flags, cfg, resp, env, outputMode, checkResult, isDangerous,
                   stdout, clipboard, zsh>>

\* A faulty variant of SafetyCheck, which runs the check with --no-safety,
\* too.
SafetyCheckIgnoresFlag ==
    /\ rpc = "safety"
    /\ \E r \in {Check(NewChecker, command)} :
         /\ checkResult' = r
         /\ IF r.Level = Danger /\ cfg.BlockDangerous
            THEN isDangerous' = TRUE /\ stderr' = stderr \o DangerWarning(r)
            ELSE IF r.Level = Caution /\ cfg.ShowWarnings
            THEN stderr' = stderr \o CautionWarning(r) /\ UNCHANGED isDangerous
            ELSE UNCHANGED <<isDangerous, stderr>>
    /\ rpc' = "output"
    /\ UNCHANGED <<vars, via, flags, cfg, resp, env, command, outputMode, stdout, clipboard,
                   exit, zsh>>

\* A faulty variant of SafetyCheck, which warns about Danger only.
SafetyCheckDangerOnly ==
    /\ rpc = "safety"
    /\ IF flags.noSafety
       THEN UNCHANGED <<checkResult, isDangerous, stderr>>
       ELSE \E r \in {Check(NewChecker, command)} :
              /\ checkResult' = r
              /\ IF r.Level = Danger /\ cfg.BlockDangerous
                 THEN isDangerous' = TRUE /\ stderr' = stderr \o DangerWarning(r)
                 ELSE UNCHANGED <<isDangerous, stderr>>
    /\ rpc' = "output"
    /\ UNCHANGED <<vars, via, flags, cfg, resp, env, command, outputMode, stdout, clipboard,
                   exit, zsh>>

\* "Run safety check (unless disabled)."
SafetyCheck ==
    /\ rpc = "safety"
    /\ IF flags.noSafety
       THEN UNCHANGED <<checkResult, isDangerous, stderr>>
       ELSE \E r \in {Check(NewChecker, command)} :
              /\ checkResult' = r
              /\ IF r.Level = Danger /\ cfg.BlockDangerous
                 THEN isDangerous' = TRUE /\ stderr' = stderr \o DangerWarning(r)
                 ELSE IF r.Level = Caution /\ cfg.ShowWarnings
                 THEN stderr' = stderr \o CautionWarning(r) /\ UNCHANGED isDangerous
                 ELSE UNCHANGED <<isDangerous, stderr>>
    /\ rpc' = "output"
    /\ UNCHANGED <<vars, via, flags, cfg, resp, env, command, outputMode, stdout, clipboard,
                   exit, zsh>>

\* A faulty variant of OutputCommand, which hands the normalized command to
\* the output router.
OutputCommandNormalized ==
    /\ rpc = "output"
    /\ \E eff \in {Output(env, Normalize(command), outputMode, isDangerous)} :
         /\ stdout' = stdout \o eff.stdout
         /\ clipboard' = clipboard \o eff.clipboard
         /\ IF eff.err # Nil
            THEN Return(exitSystemError, eff.stderr \o <<"qcmd: output error: " \o eff.err>>)
            ELSE Return(IF isDangerous THEN exitDangerBlocked ELSE exitSuccess, eff.stderr)
    /\ UNCHANGED <<vars, via, flags, cfg, resp, env, command, outputMode, checkResult,
                   isDangerous, zsh>>

\* A faulty variant of OutputCommand, which returns success whenever the
\* output step succeeded.
OutputCommandIgnoresDanger ==
    /\ rpc = "output"
    /\ \E eff \in {Output(env, command, outputMode, isDangerous)} :
         /\ stdout' = stdout \o eff.stdout
         /\ clipboard' = clipboard \o eff.clipboard
         /\ IF eff.err # Nil
            THEN Return(exitSystemError, eff.stderr \o <<"qcmd: output error: " \o eff.err>>)
            ELSE Return(exitSuccess, eff.stderr)
    /\ UNCHANGED <<vars, via, flags, cfg, resp, env, command, outputMode, checkResult,
                   isDangerous, zsh>>

\* "Output the command." and "Return appropriate exit code."
OutputCommand ==
    /\ rpc = "output"
    /\ \E eff \in {Output(env, command, outputMode, isDangerous)} :
         /\ stdout' = stdout \o eff.stdout
         /\ clipboard' = clipboard \o eff.clipboard
         /\ IF eff.err # Nil
            THEN Return(exitSystemError, eff.stderr \o <<"qcmd: output error: " \o eff.err>>)
            ELSE Return(IF isDangerous THEN exitDangerBlocked ELSE exitSuccess, eff.stderr)
    /\ UNCHANGED <<vars, via, flags, cfg, resp, env, command, outputMode, checkResult,
                   isDangerous, zsh>>

\* A faulty variant of qCase, which pushes the command to the buffer of the
\* line editor whatever the exit code.
qCaseInjectsBlocked ==
    /\ via = "q" /\ Exited /\ zsh.ret = <<>>
    /\ \E cmd \in {TrimRight(stdout, {"\n"})} :
         zsh' = [zsh EXCEPT !.cmd = cmd, !.exit_code = exit,
                            !.buffer = IF cmd # "" THEN @ \o <<cmd>> ELSE @, !.ret = exit]
    /\ UNCHANGED <<vars, via, flags, cfg, resp, env, rpc, command, outputMode, checkResult,
                   isDangerous, stdout, stderr, clipboard, exit>>

\* q, from the return of the binary on: cmd=$(...) holds its stdout without
\* the trailing newlines; print -z pushes to the buffer of the line editor,
\* echo shows the text.
qCase ==
    /\ via = "q" /\ Exited /\ zsh.ret = <<>>
    /\ \E cmd \in {TrimRight(stdout, {"\n"})} :
         zsh' = [zsh EXCEPT
                    !.cmd = cmd,
                    !.exit_code = exit,
                    !.buffer = IF exit[1] = 0 /\ cmd # "" THEN @ \o <<cmd>> ELSE @,
                    !.shown = IF exit[1] = 3 THEN @ \o cmd \o "\n" ELSE @,
                    !.ret = exit]
    /\ UNCHANGED <<vars, via, flags, cfg, resp, env, rpc, command, outputMode, checkResult,
                   isDangerous, stdout, stderr, clipboard, exit>>

NextRun ==
    \/ qStart
    \/ ParseFlags
    \/ LoadConfig
    \/ ParseOutputMode
    \/ Generate
    \/ SafetyCheck
    \/ OutputCommand
    \/ qCase

-----------------------------------------------------------------------------
(* The runs.                                                               *)

\* What q passes: --query-file and --output=zle.
qFlags == [outputMode |-> "zle", noSafety |-> FALSE, showVer |-> FALSE]

\* The flags of a run from the command line.
CliFlags ==
    {[outputMode |-> m, noSafety |-> n, showVer |-> FALSE] :
        m \in {"", "zle", "clipboard", "print", "auto", "fancy"}, n \in BOOLEAN}
      \cup {[outputMode |-> "", noSafety |-> FALSE, showVer |-> TRUE]}

\* The configuration after Load: the defaults, overridden by the file and
\* the environment.
Configs ==
    {[OutputMode |-> m, BlockDangerous |-> b, ShowWarnings |-> w] :
        m \in {"auto", "clipboard", "print", "zle", "", "fancy"}, b \in BOOLEAN, w \in BOOLEAN}

\* The replies of the backend: a command of each level, bare, fenced, in
\* backticks, behind a prompt; a reply without a command; the error
\* sentinel; and the errors of the call.
Fenced(lang, body) == Fence \o lang \o "\n" \o body \o "\n" \o Fence

ReplyCommands ==
    {"ls -la", "git status", "rm -rf ./build", "sudo apt update", "rm -rf /",
     "sudo bash -c 'rm -rf ~'", "dd if=/dev/zero of=/dev/sda",
     "for f in *.txt; do\n  cat \"$f\"\ndone"}

BlankReplies ==
    {"", "  \n\t\n ", Fence \o "\n" \o Fence, Fenced("bash", "   "),
     Fence \o Fence, Backtick \o "  " \o Backtick}

\* the error sentinel in single quotes, inside a longer command, and without
\* its colon and message
SentinelReplies ==
    {"echo 'QCMD_ERROR: not possible'", "ls && echo \"QCMD_ERROR: test\"",
     "echo \"QCMD_ERROR: no\" && echo \"b\"", "echo \"QCMD_ERROR\""}

\* commands that Normalize changes
SpacedReplies == {"rm  -rf  //", "sudo\tapt   update"}

Replies ==
    ReplyCommands \cup BlankReplies
      \cup {Fenced("bash", "rm -rf /"), Fenced("", "ls -la"), Fenced("sh", "rm -rf ./build"),
            Backtick \o "git status" \o Backtick, "$ ls -la", "\n  rm -rf ~ \n\n",
            "echo \"QCMD_ERROR: cannot do that\""}
      \cup SentinelReplies \cup SpacedReplies

Responses ==
    {[Command |-> c, err |-> Nil] : c \in Replies}
      \cup {[Command |-> "", err |-> e] : e \in {"timeout", "canceled", "nokey", "api"}}

\* The machine: without a clipboard tool, with one that works, with one
\* that fails.
Machines ==
    {[hasClipboard |-> FALSE, copyFails |-> FALSE], [hasClipboard |-> TRUE, copyFails |-> FALSE],
     [hasClipboard |-> TRUE, copyFails |-> TRUE]}

InitRun ==
    /\ InitCalls({}, {})
    /\ \/ via = "cli" /\ flags \in CliFlags /\ rpc = "flags"
          /\ zsh = [query |-> "", cmd |-> "", exit_code |-> <<>>, buffer |-> <<>>,
                    shown |-> "", ret |-> <<>>]
       \/ via = "q" /\ flags = qFlags /\ rpc = "none"
          /\ zsh \in {[query |-> query, cmd |-> "", exit_code |-> <<>>, buffer |-> <<>>,
                       shown |-> "", ret |-> <<>>] : query \in {"", "list the files"}}
    /\ cfg \in Configs
    /\ resp \in Responses
    /\ env \in Machines
    /\ command = ""
    /\ outputMode = ModeAuto
    /\ checkResult = SafeResult
    /\ isDangerous = FALSE
    /\ stdout = ""
    /\ stderr = <<>>
    /\ clipboard = <<>>
    /\ exit = <<>>

SpecRun == InitRun /\ [][NextRun]_<<vars, runVars>>

-----------------------------------------------------------------------------
(* The claims.                                                             *)

Done(self) == pc[self] = "done"

Levels == {Safe, Caution, Danger}

\* The commands obtained from the commands cmds by one extraction: for every
\* wrapper that matches, the trimmed, normalized, non-empty inner command.
Inners(cmds) ==
    {Normalize(InnerCmd(w, cmd)) :
        w \in {ShellWrappers[k] : k \in 1..Len(ShellWrappers)}, cmd \in cmds} \ {""}

\* ... and by 1 to n successive extractions.
RECURSIVE Extracted(_, _)
Extracted(cmds, n) ==
    IF n = 0 \/ cmds = {} THEN {}
    ELSE Inners(cmds) \cup Extracted(Inners(cmds), n - 1)

\* C1: every command of the canonical dangerous set, also with the r/f flags
\* reordered or upper-cased, with extra white space or with doubled slashes,
\* is classified Danger.
C1_CanonicalDangerIsDanger ==
    \A self \in Calls :
        Done(self) /\ input[self] \in CanonicalDangerVariants => out[self].Level = Danger

\* C2: a command that matches a Danger pattern is classified Danger inside
\* each of the wrapper forms, and inside two of them, one in the other.
C2_WrappedDangerIsDanger ==
    \A self \in Calls :
        Done(self) /\ input[self] \in Wrapped \cup WrappedTwice => out[self].Level = Danger

C2_Witness ==
    \E self \in Calls :
        /\ Done(self)
        /\ input[self] = "sudo bash -c 'rm -rf /'"
        /\ out[self].Level = Danger
        /\ HasSuffix(out[self].Pattern, " (via wrapper)")

\* bare *) is classified Safe or Caution, never Danger.
C4_BenignRmNeverDanger ==
    \A self \in Calls :
        Done(self) /\ input[self] \in RmBenign => out[self].Level \in {Safe, Caution}

C4_Witness ==
    \E self \in Calls :
        /\ Done(self)
        /\ input[self] = "rm -rf /var/log/myapp"
        /\ out[self].Level = Caution

\* The command is sudo in front of an inner command.
IsSudoCommand(cmd) == HasPrefix(Normalize(cmd), "sudo ")

\* Neither the command nor a command extracted from it matches a Danger
\* pattern.
NoDangerFound(cmd) ==
    \A x \in {Normalize(cmd)} \cup Extracted({Normalize(cmd)}, maxDepth) : ~MatchesDanger(x)

\* C5: the borderline commands are classified exactly Caution, and so is
\* sudo in front of a command when neither the full command nor a command
\* extracted from it matches a Danger pattern.
C5_BorderlineIsCaution ==
    \A self \in Calls :
        Done(self) =>
            /\ input[self] \in CanonicalCaution => out[self].Level = Caution
            /\ IsSudoCommand(input[self]) /\ NoDangerFound(input[self])
                   => out[self].Level = Caution

C5_Witness ==
    \E self \in Calls :
        /\ Done(self)
        /\ input[self] = "sudo ls -la"
        /\ NoDangerFound(input[self])
        /\ out[self].Level = Caution

\* C6: Normalize is idempotent: normalizing the normalized command gives it
\* back.
C6_NormalizeIdempotent ==
    \A self \in Calls :
        pc[self] # "start" => Normalize(normalized[self]) = normalized[self]

C6_Witness ==
    \E self \in Calls :
        /\ pc[self] # "start"
        /\ input[self] = " //\t"
        /\ normalized[self] = "/"

\* The string is empty or white space only.
Blank(s) == Chars(s) \subseteq UnicodeSpace

\* C7: Check is total: a call that has not returned can take a step, the
\* severity returned is Safe, Caution or Danger, and it is Safe for the empty
\* string and for white space.
C7_CheckTotal ==
    /\ (\E self \in Calls : ~Done(self)) => ENABLED Next
    /\ \A self \in Calls :
          Done(self) =>
              /\ out[self].Level \in Levels
              /\ Blank(input[self]) => out[self].Level = Safe

C7_Witness ==
    \E self \in Calls :
        /\ Done(self)
        /\ input[self] = " \t "
        /\ out[self].Level = Safe

\* The patterns of the registries.
RegistryPatterns ==
    {DangerPatterns[k] : k \in 1..Len(DangerPatterns)}
        \cup {CautionPatterns[k] : k \in 1..Len(CautionPatterns)}

\* The result carries the regular expression (as it is, or marked as found
\* through a wrapper), the description and the category of the pattern p.
Carries(r, p) ==
    /\ r.Level = p.Level
    /\ r.Pattern \in {p.Regex, p.Regex \o " (via wrapper)"}
    /\ r.Description = p.Description
    /\ r.Category = p.Category

\* C8: a result is Safe if and only if its pattern, description and category
\* are all empty; a Caution or Danger result carries the non-empty pattern
\* string, description and category of a registry pattern that matched (the
\* command, or a command extracted from it).
C8_SafeIffEmptyFields ==
    \A self \in Calls :
        Done(self) =>
            LET r == out[self]
            IN  /\ r.Level = Safe <=> (r.Pattern = "" /\ r.Description = "" /\ r.Category = "")
                /\ r.Level # Safe =>
                      /\ r.Pattern # "" /\ r.Description # "" /\ r.Category # ""
                      /\ \E p \in RegistryPatterns :
                            /\ Carries(r, p)
                            /\ \E x \in {normalized[self]}
                                          \cup Extracted({normalized[self]}, maxDepth) :
                                  MatchString(Compile(p.Regex), x)

C8_Witness ==
    \E self \in Calls :
        /\ Done(self)
        /\ input[self] = "bash -c 'chmod 777 /'"
        /\ out[self] = CheckResult(Danger,
                                   "chmod\\s+(-[rR]+\\s+)*(000|777)\\s+/(\\s|$) (via wrapper)",
                                   "Dangerous permission change on root filesystem",
                                   "filesystem")

\* No activation of checkNestedCommands is deeper than the ceiling, and one
\* at the ceiling extracts nothing.
DepthBounded ==
    \A self \in Calls :
        /\ Len(stack[self]) <= 5 + 1
        /\ \A k \in 1..Len(stack[self]) :
              /\ stack[self][k].depth = k - 1
              /\ stack[self][k].depth <= 5
              /\ stack[self][k].at # "enter" => stack[self][k].depth < 5

\* C9: Check terminates on every input: the recursion of the extraction
\* never goes deeper than the ceiling of 5, and every call, also one on six
\* or more chained wrappers, ends with a result.
C9_BoundedAndTerminates ==
    /\ []DepthBounded
    /\ <>(\A self \in Calls : Done(self) /\ out[self].Level \in Levels)

C9_Witness ==
    \E self \in Calls :
        /\ input[self] = "sudo sudo sudo sudo sudo sudo ls"
        /\ Len(stack[self]) = 5 + 1
        /\ Top(self).depth = 5

\* C10: Check writes to no registry, and whatever the interleaving with
\* other calls, a call returns what Check returns for its input alone.
C10_NoSharedWrites ==
    /\ [][checker' = checker]_vars
    /\ [](\A self \in Calls : Done(self) => out[self] = Check(NewChecker, input[self]))

C10_Witness ==
    /\ Done(1)
    /\ input[1] = "sudo bash -c 'rm -rf ~'"
    /\ out[1].Level = Danger
    /\ pc[2] = "nested"
    /\ Len(stack[2]) >= 2
    /\ input[2] = "sudo sudo sudo sudo sudo ls"

-----------------------------------------------------------------------------
(* The run of the binary and the shell around it.                          *)

\* The run has called Check, and Check has returned the level.
Checked(level) == rpc \in {"output", "exit"} /\ ~flags.noSafety /\ checkResult.Level = level

\* q has returned.
qReturned == via = "q" /\ zsh.ret # <<>>

\* C11: when qcmd runs through q with block_dangerous true and Check returns
\* Danger, print -z is never executed: the buffer of the line editor stays
\* empty, and q shows at most the command, for manual copying.
C11_DangerNeverInjected ==
    (via = "q" /\ cfg.BlockDangerous /\ Checked(Danger))
        => /\ zsh.buffer = <<>>
           /\ zsh.shown \in {"", command \o "\n"}

C11_Witness ==
    /\ qReturned /\ cfg.BlockDangerous /\ Checked(Danger)
    /\ command = "sudo bash -c 'rm -rf ~'"
    /\ zsh.ret = <<exitDangerBlocked>>
    /\ zsh.shown = command \o "\n"
    /\ zsh.buffer = <<>>

\* The copy to the clipboard fails on this machine.
CopyFails == ~env.hasClipboard \/ env.copyFails

\* stderr holds a warning about a dangerous command.
DangerWarned == \E i \in 1..Len(stderr) : HasPrefix(stderr[i], "WARNING: ")

\* What a run gives for a Safe command: no warning, exit code 0.
AsForSafe == Exited /\ exit = <<exitSuccess>> /\ ~DangerWarned

\* C13: in every run where the safety check runs and returns Danger, the
\* user is told so, by a warning on stderr and an exit code other than 0:
\* the command is never emitted as a Safe command would be.
C13_DangerNeverSilent ==
    (Exited /\ Checked(Danger)) => (DangerWarned /\ exit # <<exitSuccess>> /\ ~AsForSafe)

\* stderr holds a warning of either kind.
Warned == \E i \in 1..Len(stderr) : HasPrefix(stderr[i], "WARNING: ") \/ HasPrefix(stderr[i], "Caution: ")

\* The run has written the Caution warning, with the category and the
\* description of Check's result, and after it what the output router
\* writes for a command that is not flagged.
CautionPath(code) ==
    \E eff \in {Output(env, command, outputMode, FALSE)} :
        /\ stdout = eff.stdout
        /\ clipboard = eff.clipboard
        /\ SubSeq(stderr, 1, Len(stderr) - (IF eff.err # Nil THEN 1 ELSE 0))
             = <<"", "Caution: Review this command before executing.",
                 "  Category: " \o checkResult.Category,
                 "  Reason: " \o checkResult.Description, "">> \o eff.stderr
        /\ checkResult.Category # "" /\ checkResult.Description # ""
        /\ exit = <<code>>

\* (clipboard, and auto when the copy succeeds).
CommandOnStdout ==
    CASE outputMode = ModeZLE -> command
      [] outputMode = ModePrint -> command \o "\n"
      [] outputMode = ModeAuto -> IF CopyFails THEN command \o "\n" ELSE ""
      [] outputMode = ModeClipboard -> ""

\* The run has ended with one of the exit codes of the output step.
Emitted == Exited /\ exit \in {<<exitSuccess>>, <<exitDangerBlocked>>}

\* A run that ends in an error has said so on stderr.
ErrorsOnStderr == (Exited /\ exit \in {<<exitUserError>>, <<exitSystemError>>}) => stderr # <<>>

\* leaves the command, and nothing else, on stdout.
C16_ZLEWritesCommandOnly ==
    /\ \A dangerous \in BOOLEAN :
         Output(env, command, ModeZLE, dangerous) = Effect(command, <<>>, <<>>, Nil)
    /\ (Emitted /\ ~flags.showVer /\ outputMode = ModeZLE)
         => /\ stdout = command
            /\ stderr = IF isDangerous THEN DangerWarning(checkResult)
                        ELSE IF Checked(Caution) /\ cfg.ShowWarnings THEN CautionWarning(checkResult)
                        ELSE <<>>

C16_Witness ==
    /\ Emitted /\ outputMode = ModeZLE /\ isDangerous
    /\ command = "rm -rf /"
    /\ stdout = "rm -rf /"
    /\ Len(stderr) = Len(DangerWarning(checkResult))

\* The mode a string names; auto for any other string.
ModeNamed(s) ==
    CASE s = "zle" -> ModeZLE
      [] s = "clipboard" -> ModeClipboard
      [] s = "print" -> ModePrint
      [] OTHER -> ModeAuto

\* run is past the choice of the output mode, on its way to the output step.
ModeChosen == rpc \in {"generate", "safety", "output"}

\* C17: the effective output mode is the value of --output when the flag is
\* given (an invalid value ends the run with exit code 1); without the flag
\* it is the configuration's output_mode, print, clipboard and zle being
\* honoured, and auto only if the configured value is empty or invalid.
C17_FlagThenConfig ==
    /\ ModeChosen => outputMode = ModeNamed(IF flags.outputMode # "" THEN flags.outputMode
                                            ELSE cfg.OutputMode)
    /\ (Exited /\ ~flags.showVer /\ Validate(cfg) = Nil
           /\ flags.outputMode \notin {"", "zle", "clipboard", "print", "auto"})
         => exit = <<exitUserError>> /\ stdout = ""

\* The run got a reply from the backend: its flags and its configuration
\* are valid and the call of the backend succeeded.
Replied ==
    /\ ~flags.showVer
    /\ flags.outputMode \in {"", "zle", "clipboard", "print", "auto"}
    /\ cfg.OutputMode \in validModes
    /\ resp.err = Nil

\* C18: when the sanitized reply is empty (a reply of white space only, or
\* a code fence around nothing or around white space), the run ends with
\* exit code 1 and writes no command to stdout or the clipboard.
C18_EmptyCommandIsUserError ==
    (Exited /\ Replied /\ Sanitize(resp.Command) = "")
        => exit = <<exitUserError>> /\ stdout = "" /\ clipboard = <<>>

-----------------------------------------------------------------------------
(* The phases of Check.                                                    *)

\* The steps of a call from one phase to the next.
PhaseOrder ==
    {<<"start", "patterns">>, <<"patterns", "done">>, <<"patterns", "nested">>,
     <<"nested", "done">>, <<"nested", "caution">>, <<"caution", "done">>}

\* C19: Check follows the three-phase order.  The Danger registry is matched
\* first, against the normalized top-level command, and a match returns
\* Danger at once, without nested extraction and without the Caution
\* registry; nested extraction runs only if no Danger pattern matched
\* directly; the Caution registry is consulted only if both phases yielded
\* Safe, and against the normalized top-level command only.
C19_ThreePhaseOrder ==
    [][\A self \in Calls :
         \/ pc'[self] = pc[self]
         \/ /\ <<pc[self], pc'[self]>> \in PhaseOrder
            /\ pc'[self] = "patterns" => normalized'[self] = Normalize(input[self])
            /\ pc[self] = "patterns" =>
                 \E direct \in {checkPatterns(checker, normalized[self])} :
                     /\ result'[self] = direct
                     /\ IF direct.Level = Danger
                        THEN pc'[self] = "done" /\ out'[self] = direct /\ stack'[self] = <<>>
                        ELSE pc'[self] = "nested" /\ direct = SafeResult
                             /\ stack'[self] = <<Frame(normalized[self], 0)>>
            /\ pc[self] = "nested" =>
                 /\ stack[self] = <<>> /\ result[self] = SafeResult
                 /\ IF ret[self].Level > Safe
                    THEN pc'[self] = "done" /\ out'[self] = ret[self]
                    ELSE pc'[self] = "caution"
            /\ pc[self] = "caution" =>
                 /\ result[self].Level = Safe /\ ret[self].Level = Safe
                 /\ out'[self] = checkCautionPatterns(checker, normalized[self])]_vars

C19_Witness ==
    \E self \in Calls :
        /\ Done(self)
        /\ normalized[self] = "sudo apt update"
        /\ ret[self] = SafeResult
        /\ out[self].Level = Caution
        /\ out[self] = result[self]

\* Some pattern of the Danger registry matches cmd.
DangerPatternMatches(cmd) ==
    \E k \in 1..Len(DangerPatterns) : MatchString(Compile(DangerPatterns[k].Regex), cmd)

\* The normalized top-level command of a call and the inner commands that 1
\* to n successive extractions give from it.
Examined(self, n) ==
    {Normalize(input[self])} \cup Extracted({Normalize(input[self])}, n)

\* C20: Check returns Danger if and only if the normalized top-level
\* command, or an inner command obtained from it by 1 to 5 successive
\* wrapper extractions (each trimmed and normalized again, the empty ones
\* skipped), matches a Danger pattern; an activation whose depth counter is
\* 5 returns Safe without matching or extracting, so a command reachable
\* only through 6 or more extractions is not examined.
C20_DangerIffWithinFiveExtractions ==
    \A self \in Calls :
        /\ Done(self) =>
             (out[self].Level = Danger
                <=> \E cmd \in Examined(self, maxDepth) : DangerPatternMatches(cmd))
        /\ \A k \in 1..Len(stack[self]) :
             /\ stack[self][k].depth <= maxDepth
             /\ stack[self][k].depth = maxDepth => stack[self][k].at = "enter"

\* A command that only the 6th extraction reaches is not classified Danger.
C20_Witness ==
    \E self \in Calls :
        /\ Done(self)
        /\ input[self] = ShChain(maxDepth + 1, "rm -rf /")
        /\ "rm -rf /" \in Examined(self, maxDepth + 1) \ Examined(self, maxDepth)
        /\ out[self].Level # Danger

-----------------------------------------------------------------------------
(* The severity and the metadata of Check's result.                        *)

\* The levels found for a call: that of the Danger registry on the
\* normalized command, that of the Danger registry on every command that 1
\* to maxDepth extractions give, that of the Caution registry on the
\* normalized command.
LevelsFound(self) ==
    {checkPatterns(NewChecker, cmd).Level : cmd \in Examined(self, maxDepth)}
        \cup {checkCautionPatterns(NewChecker, Normalize(input[self])).Level}

\* Within an activation of checkNestedCommands, highestResult never goes
\* down.
HighestKept ==
    \A self \in Calls :
        \A k \in 1..Len(stack[self]) :
            (k <= Len(stack'[self]) /\ stack[self][k].at # "enter")
                => stack'[self][k].highestResult.Level >= stack[self][k].highestResult.Level

\* C21: the severity Check returns is the maximum, under Safe < Caution <
\* Danger, of the top-level Danger-registry result, of every result found
\* by nested extraction across all matching wrappers and all recursion
\* levels, and of the top-level Caution-registry result; a lower severity
\* never replaces a higher one that was found.
C21_HighestSeverity ==
    /\ [](\A self \in Calls : Done(self) => out[self].Level = Max(LevelsFound(self)))
    /\ [][HighestKept]_vars

C21_Witness ==
    \E self \in Calls :
        /\ Done(self)
        /\ input[self] = "sudo bash -c 'rm -rf ~'"
        /\ checkPatterns(NewChecker, normalized[self]).Level = Safe
        /\ checkCautionPatterns(NewChecker, normalized[self]).Level = Caution
        /\ LevelsFound(self) = {Safe, Caution, Danger}
        /\ out[self].Level = Danger

\* C22: for every n >= 0, also above the depth ceiling of 5, the command
\* made of n times "sudo " and a command that matches a Danger pattern is
\* classified Danger.
C22_SudoChainIsDanger ==
    \A self \in Calls :
        (Done(self) /\ input[self] \in SudoChains) => out[self].Level = Danger

C22_Witness ==
    \E self \in Calls :
        /\ Done(self)
        /\ input[self] = Repeat("sudo ", maxDepth + 2) \o "chmod 777 /"
        /\ input[self] \in SudoChains
        /\ out[self].Level = Danger

\* The results that the Danger patterns give on the commands of a set.
DangerResults(cmds) ==
    {checkPatterns(NewChecker, cmd) : cmd \in {c \in cmds : DangerPatternMatches(c)}}

Marked(r) == HasSuffix(r.Pattern, " (via wrapper)")

\* C23: a Danger result found by unwrapping is the result of a Danger
\* pattern on an extracted command with " (via wrapper)" appended once to
\* the pattern's regular expression, at whatever depth it was found, its
\* level, description and category unchanged; a top-level command that a
\* Danger pattern matches is reported without the suffix, and no result
\* other than a Danger one carries it.
C23_ViaWrapperOnce ==
    \A self \in Calls :
        Done(self) =>
            /\ (out[self].Level = Danger /\ DangerPatternMatches(normalized[self]))
                   => out[self] = checkPatterns(NewChecker, normalized[self])
            /\ (out[self].Level = Danger /\ ~DangerPatternMatches(normalized[self]))
                   => \E r \in DangerResults(Extracted({normalized[self]}, maxDepth)) :
                          /\ ~Marked(r)
                          /\ out[self] = [r EXCEPT !.Pattern = r.Pattern \o " (via wrapper)"]
            /\ Marked(out[self])
                   => out[self].Level = Danger /\ ~DangerPatternMatches(normalized[self])

\* A Danger result found by the second extraction, not by the first.
C23_Witness ==
    \E self \in Calls :
        /\ Done(self)
        /\ out[self].Level = Danger
        /\ Marked(out[self])
        /\ DangerResults(Examined(self, 1)) = {}
        /\ DangerResults(Examined(self, 2)) # {}

\* ---------------------------------------------------------------------------
\* The shape of a normalized command.

\* s without its leading and trailing characters of the set white.
Trimmed(s, white) ==
    LET kept == {i \in 1..Len(s) : At(s, i) \notin white}
    IN  IF kept = {} THEN "" ELSE SubSeq(s, Min(kept), Max(kept))

\* s with one space for every maximal run of characters of the set white and
\* one slash for every maximal run of slashes, the other characters kept in
\* order.
Squeezed(s, white) ==
    Join([i \in 1..Len(s) |->
             IF At(s, i) \in white
             THEN IF i > 1 /\ At(s, i - 1) \in white THEN "" ELSE " "
             ELSE IF At(s, i) = "/" /\ i > 1 /\ At(s, i - 1) = "/" THEN "" ELSE At(s, i)],
         1, Len(s))

\* No white space at either end, no tab or newline, no two consecutive
\* spaces, no "//".
Tidy(n) ==
    /\ n # "" => At(n, 1) \notin UnicodeSpace /\ At(n, Len(n)) \notin UnicodeSpace
    /\ Chars(n) \cap {"\t", "\n"} = {}
    /\ ~Contains(n, "  ")
    /\ ~Contains(n, "//")

\* C24, as stated, with one notion of white space throughout (that of \s, or
\* that of TrimSpace): the normalized command is tidy, it is the input
\* without its leading and trailing white space, with one space for every
\* maximal white-space run and one slash for every run of slashes, the other
\* characters kept in order, and it is "" for an empty or white-space-only
\* input.
C24_NormalizeShape ==
    \E white \in {RegexSpace, UnicodeSpace} :
        \A self \in Calls :
            pc[self] # "start" =>
                /\ Tidy(normalized[self])
                /\ normalized[self] = Squeezed(Trimmed(input[self], white), white)
                /\ Chars(input[self]) \subseteq white => normalized[self] = ""

\* C24, amended: the normalized command is tidy; it is the input without
\* its leading and trailing Unicode white space (vertical tab included), with
\* one space for every maximal run of \s characters (space, tab, newline,
\* form feed, carriage return; not the vertical tab) and one slash for every
\* run of slashes, the other characters kept in order; it is "" for an empty
\* or white-space-only input.
C24_NormalizeShapeTwoWhites ==
    \A self \in Calls :
        pc[self] # "start" =>
            /\ Tidy(normalized[self])
            /\ normalized[self] = Squeezed(Trimmed(input[self], UnicodeSpace), RegexSpace)
            /\ Chars(input[self]) \subseteq UnicodeSpace => normalized[self] = ""

\* A vertical tab is trimmed at the beginning and kept inside.
C24_Witness ==
    \E self \in Calls :
        /\ pc[self] # "start"
        /\ input[self] = VT \o "a" \o VT \o "a"
        /\ normalized[self] = "a" \o VT \o "a"

\* ---------------------------------------------------------------------------
\* The output router.

Modes == {ModeZLE, ModeClipboard, ModePrint, ModeAuto}

\* The lines hold the warning of the output router.
HoldsDangerWarning(lines) ==
    \E i \in 1..Len(lines) :
        lines[i] = "WARNING: This command has been flagged as potentially dangerous."

\* What the output step of run appends to stderr.
WrittenToStderr == SubSeq(stderr', Len(stderr) + 1, Len(stderr'))

OutputStep == rpc = "output" /\ rpc' = "exit"

\* C25: Output writes the danger warning to stderr if and only if the
\* command is flagged dangerous and the mode is not ZLE, for each of the four
\* modes and in the output step of every run.
C25_WarningIffDangerousNotZLE ==
    /\ [](rpc = "output" =>
            \A mode \in Modes, dangerous \in BOOLEAN :
                HoldsDangerWarning(Output(env, command, mode, dangerous).stderr)
                    <=> (dangerous /\ mode # ModeZLE))
    /\ [][OutputStep =>
            (HoldsDangerWarning(WrittenToStderr) <=> (isDangerous /\ outputMode # ModeZLE))
         ]_<<vars, runVars>>

\* A dangerous command copied to the clipboard, with the warning.
C25_Witness ==
    /\ Exited
    /\ isDangerous
    /\ outputMode = ModeClipboard
    /\ ~CopyFails
    /\ HoldsDangerWarning(stderr)
    /\ clipboard = <<command>>

\* The effect is that of the print route: the command and a newline on
\* stdout, nothing copied, no confirmation.
PrintRoute(eff, cmd) ==
    /\ eff.stdout = cmd \o "\n"
    /\ eff.clipboard = <<>>
    /\ eff.stderr = <<>>

\* The effect is that of the clipboard route: the command copied, the
\* confirmation on stderr, nothing on stdout.
ClipboardRoute(eff, cmd) ==
    /\ eff.stdout = ""
    /\ eff.clipboard = <<cmd>>
    /\ eff.stderr = <<"Command copied to clipboard.">>

\* C26: auto mode never returns a clipboard error; without a clipboard tool,
\* or when the copy fails, it takes the print route, and when the copy
\* succeeds the clipboard route: one of the two, never both; so it is in the
\* output step of every run in auto mode.
C26_AutoDegrades ==
    /\ [](rpc = "output" =>
            \E eff \in {outputAuto(env, command)} :
                /\ eff.err = Nil
                /\ IF CopyFails THEN PrintRoute(eff, command) ELSE ClipboardRoute(eff, command)
                /\ ~(PrintRoute(eff, command) /\ ClipboardRoute(eff, command)))
    /\ [][(OutputStep /\ outputMode = ModeAuto) =>
            /\ exit' # <<exitSystemError>>
            /\ IF CopyFails
               THEN stdout' = stdout \o command \o "\n" /\ clipboard' = clipboard
               ELSE stdout' = stdout /\ clipboard' = clipboard \o <<command>>
         ]_<<vars, runVars>>

\* The copy fails on a machine with a clipboard tool: the command is printed.
C26_Witness ==
    /\ Exited
    /\ outputMode = ModeAuto
    /\ env.hasClipboard /\ env.copyFails
    /\ exit = <<exitSuccess>>
    /\ stdout = command \o "\n"
    /\ clipboard = <<>>

\* ---------------------------------------------------------------------------
\* The error sentinel.

\* echo "QCMD_ERROR: <message>" and nothing else, in the quotes q: the
\* message is not empty and holds neither the quote nor a newline.
SentinelIn(q) ==
    Cat(<<Bot, Lit("echo"), Plus(S), Lit(q), Lit("QCMD_ERROR:"), Star(S),
          Plus(NotCls({q, "\n"})), Lit(q), Eot>>)

IsSentinel(cmd) == \E q \in {"\"", "'"} : MatchString(SentinelIn(q), cmd)

\* run has reported that the backend could not generate a command.
SentinelReported ==
    \E i \in 1..Len(stderr) : HasPrefix(stderr[i], "qcmd: LLM could not generate command: ")

\* The backend has replied and run is past sanitize.Sanitize.
Sanitized == Replied /\ rpc \in {"safety", "output", "exit"}

\* C27: when the sanitized reply is, in its entirety, echo "QCMD_ERROR:
\* <message>", in single or double quotes, run ends with exit code 1, without
\* the safety check and with no command on stdout or the clipboard; any other
\* command, one that holds such an echo as a part or QCMD_ERROR without colon
\* and message, is not treated as the sentinel.
C27_SentinelOnlyWhenEntire ==
    Sanitized =>
        /\ IsSentinel(command) =>
             /\ Exited /\ exit = <<exitUserError>>
             /\ SentinelReported
             /\ checkResult = SafeResult /\ ~Warned
             /\ stdout = "" /\ clipboard = <<>>
        /\ ~IsSentinel(command) => ~SentinelReported

\* ---------------------------------------------------------------------------
\* The Caution result.

\* The places of the Caution registry whose pattern matches the command.
CautionHits(cmd) ==
    {k \in 1..Len(CautionPatterns) : MatchString(Compile(CautionPatterns[k].Regex), cmd)}

\* C28: the nested extraction gives Safe or Danger only, in every result it
\* returns or keeps; Check returns Caution if and only if no Danger pattern
\* matches the normalized top-level command or a command extracted from it
\* within the depth limit, and a Caution pattern matches the normalized
\* top-level command; the result then carries the regular expression, the
\* description and the category of the first such pattern of the Caution
\* registry.
C28_CautionFromTopLevelOnly ==
    \A self \in Calls :
        /\ ret[self].Level \in {Safe, Danger}
        /\ \A k \in 1..Len(stack[self]) :
              /\ stack[self][k].highestResult.Level \in {Safe, Danger}
              /\ stack[self][k].innerResult.Level \in {Safe, Danger}
        /\ Done(self) =>
              /\ out[self].Level = Caution
                    <=> /\ \A cmd \in Examined(self, maxDepth) : ~DangerPatternMatches(cmd)
                        /\ CautionHits(normalized[self]) # {}
              /\ out[self].Level = Caution =>
                    \E first \in {CautionPatterns[Min(CautionHits(normalized[self]))]} :
                        out[self] = CheckResult(Caution, first.Regex, first.Description,
                                                first.Category)

\* A command that two Caution patterns match, the second of them before an
\* inner command that a Caution pattern matches, too.
C28_Witness ==
    \E self \in Calls :
        /\ Done(self)
        /\ input[self] = "sudo rm -rf node_modules"
        /\ Cardinality(CautionHits(normalized[self])) >= 2
        /\ CautionHits("rm -rf node_modules") # {}
        /\ out[self].Level = Caution
        /\ out[self].Description = CautionPatterns[Min(CautionHits(normalized[self]))].Description

\* ---------------------------------------------------------------------------
\* Exit code 3, and --no-safety.

\* C29: exit code 3 is returned only when the safety check ran (no
\* --no-safety), Check returned Danger on the command, block_dangerous is
\* true and the output step succeeded; with --no-safety the classifier is
\* not invoked (no result of it is kept, the command is not flagged), no
\* safety warning is written and the exit code is never 3.
C29_ExitThreeOnlyWhenBlocked ==
    /\ exit = <<exitDangerBlocked>> =>
          /\ ~flags.noSafety
          /\ checkResult.Level = Danger
          /\ checkResult = Check(NewChecker, command)
          /\ cfg.BlockDangerous
          /\ Output(env, command, outputMode, TRUE).err = Nil
    /\ flags.noSafety =>
          /\ checkResult = SafeResult
          /\ ~isDangerous
          /\ ~Warned
          /\ exit # <<exitDangerBlocked>>

\* With --no-safety a command that Check would classify Danger is printed
\* without a warning, and the run ends with exit code 0.
C29_Witness ==
    /\ Exited
    /\ flags.noSafety
    /\ cfg.BlockDangerous
    /\ Check(NewChecker, command).Level = Danger
    /\ outputMode = ModePrint
    /\ stdout = command \o "\n"
    /\ stderr = <<>>
    /\ exit = <<exitSuccess>>

\* ---------------------------------------------------------------------------
\* The command that is given out.

\* The output router copies the command.
CopyRoute == outputMode = ModeClipboard \/ (outputMode = ModeAuto /\ ~CopyFails)

\* C30: the classification leaves the command untouched: what the output
\* step writes to stdout or copies to the clipboard is the sanitized reply of
\* the backend, character for character (and the newline of the print
\* route), whatever the severity; the safety check and the output step do
\* not change the command, Normalize working on a copy of its own.
C30_CommandUntouched ==
    /\ []((Replied /\ Emitted) =>
            \E sanitized \in {Sanitize(resp.Command)} :
                /\ command = sanitized
                /\ stdout = CASE outputMode = ModeZLE -> sanitized
                              [] CopyRoute -> ""
                              [] OTHER -> sanitized \o "\n"
                /\ clipboard = IF CopyRoute THEN <<sanitized>> ELSE <<>>)
    /\ [][(rpc \in {"safety", "output"}) => (command' = command)]_<<vars, runVars>>

\* A command that Normalize changes and Check classifies Danger is written
\* as the backend gave it.
C30_Witness ==
    /\ Exited
    /\ resp.Command = "rm  -rf  //"
    /\ Normalize(command) # command
    /\ checkResult.Level = Danger
    /\ outputMode = ModeZLE
    /\ stdout = "rm  -rf  //"

====
